---- MODULE Spec2Model ----
(***************************************************************************)
(* Model of the adaptive control feedback loop of the AI intelligence      *)
(* layer (ai_intelligence_layer/main.py): the /ws/pi session handler, the  *)
(* /api/ingest/enriched webhook, the telemetry buffer they share and the   *)
(* control command synthesizer.                                            *)
(*                                                                         *)
(* One step of the model is the code a coroutine runs between two of its   *)
(* suspension points: the accept of a connection, the receive of the next  *)
(* inbound message, and the call of strategy_generator.generate.           *)
(*                                                                         *)
(* Rates and risks are fixed-point hundredths: 70 stands for 0.7.          *)
(***************************************************************************)
EXTENDS Integers, Sequences, FiniteSets, TLC

\* ------------------------------------------------------------------ bounds
NumSessions == 2      \* connection slots that may be open at the same time
MaxEvents == 6        \* connects, inbound messages and webhook pushes handled
MaxCapacity == 3      \* largest max_size of a TelemetryBuffer on its own
MaxAdds == 5          \* adds to it between two clears
MaxLap == 4           \* laps of a race, and the largest pit lap proposed
MaxStops == 2         \* largest stop_count and number of pit laps proposed
MaxCandidates == 2    \* candidates in one validate_strategies call
MaxRetries == 4       \* largest gemini_max_retries configured
MaxTokens == 3        \* tokens of a bare response text
MaxEnrichCalls == 4   \* calls of one Enricher, samples of every kind
MaxSteadyLaps == 11   \* laps fed to one Enricher in a steady run
MaxTireAge == 51      \* tire_life_laps of a lap row

\* ------------------------------------------------------- program constants
BufferMaxSize == 100  \* TelemetryBuffer.__init__(max_size=100)
LatestLimit == 10     \* telemetry_buffer.get_latest(limit=10)
MinRecords == 3       \* len(buffer_data) >= 3
NeutralValue == 5     \* brake_bias 5, differential_slip 5
MaxControl == 10      \* min(value + 1, 10)
MaxRecent == 200      \* _MAX_RECENT
ListLimit == 200      \* list_enriched: min(200, limit)
DefaultLimit == 50    \* list_enriched: limit: int = 50
GeminiMaxRetries == 3 \* Settings.gemini_max_retries
ParseRetryWait == 1   \* time.sleep(1) after a JSON parsing error
TimeoutWait == 5      \* wait_time = 5 * attempt
ErrorWait == 2        \* wait_time = 2 * attempt
KeyLength == 100      \* prompt[:100] in _get_cache_key
FullSpeed == 330      \* speed / 330.0
StressSpeed == 250    \* (speed - 250.0) / 100.0
HotTrack == 42        \* track_temp > 42
CoolTrack == 15       \* track_temp < 15
ColdTyres == 12       \* track_temp < 12
Overheating == 45     \* track_temp > 45
ConsistencyLaps == 5  \* sorted(lap_speeds.keys())[-5:]
SpeedSpread == 30     \* var / (30.0 ** 2)
DefaultTotalLaps == 50 \* EnricherState.total_laps
DefaultPosition == 10 \* EnricherState.current_position

AllSessions == 1..NumSessions
NoValue == 0 - 1

Min(a, b) == IF a < b THEN a ELSE b

\* ------------------------------------------------------- telemetry records
\* An enriched record as the handler and the synthesizer read it.
Enriched(lap, deg, pace, cliff, w0, w1) ==
    [lap |-> lap, tire_degradation_rate |-> deg, pace_trend |-> pace,
     tire_cliff_risk |-> cliff, optimal_pit_window |-> <<w0, w1>>]

NoEnriched == Enriched(NoValue, 0, "stable", 0, 0, 0)

\* The enriched payloads a client sends (lap_number is the record's lap).
FreshTyres == Enriched(1, 10, "stable", 5, 25, 30)
WornTyres == Enriched(2, 80, "declining", 80, 2, 4)
TelemetryInputs == {FreshTyres, WornTyres}
\* The payloads of the webhook pushes and of the messages that fail to parse.
OtherInputs == {FreshTyres}

RaceContextOf(lap) == [current_lap |-> lap]
NoContext == [current_lap |-> NoValue]

\* --------------------------------------------------------- TelemetryBuffer
RECURSIVE Reverse(_)
Reverse(s) == IF s = <<>> THEN <<>> ELSE Append(Reverse(Tail(s)), Head(s))

\* deque(maxlen=maxlen).append: a full deque drops its oldest item.
appendMut(deque, maxlen, x) == Append(deque, x)
append(deque, maxlen, x) ==
    LET b == Append(deque, x)
    IN  IF Len(b) > maxlen THEN Tail(b) ELSE b

\* TelemetryBuffer.add of the module-level buffer, built with the default
\* max_size.
addMut(buf, telemetry) == buf
add(buf, telemetry) == append(buf, BufferMaxSize, telemetry)

\* list(self._buffer)[-limit:] reversed; a slice from -0 is the whole list
get_latestMut(buf, limit) == <<buf[Len(buf)]>>
get_latest(buf, limit) ==
    LET n == Len(buf)
        from == IF limit = 0 THEN 1
                ELSE IF limit > n THEN 1 ELSE n - limit + 1
    IN  Reverse(SubSeq(buf, from, n))

size(buf) == Len(buf)

clearMut(buf) == buf
clear(buf) == <<>>

\* ------------------------------------------------------- ConnectionManager
RECURSIVE RemoveFirst(_, _)
RemoveFirst(list, x) ==
    IF list = <<>> THEN <<>>
    ELSE IF Head(list) = x THEN Tail(list)
    ELSE <<Head(list)>> \o RemoveFirst(Tail(list), x)

connect(conns, ws) == Append(conns, ws)

disconnectMut(conns, ws) == conns
disconnect(conns, ws) == RemoveFirst(conns, ws)

InList(list, x) == \E i \in 1..Len(list) : list[i] = x

\* ------------------------------------------------ generate_control_command
Command(bb, ds) == [brake_bias |-> bb, differential_slip |-> ds]

NeutralCommand == Command(NeutralValue, NeutralValue)

\* The rule table: one rule per axis, rates in hundredths.
brake_biasMut(enriched_telemetry) ==
    IF enriched_telemetry.tire_degradation_rate >= 70 THEN 7
    ELSE IF enriched_telemetry.tire_degradation_rate > 40 THEN 6
    ELSE IF enriched_telemetry.tire_degradation_rate < 20 THEN 4
    ELSE NeutralValue
brake_bias(enriched_telemetry) ==
    IF enriched_telemetry.tire_degradation_rate > 70 THEN 7
    ELSE IF enriched_telemetry.tire_degradation_rate > 40 THEN 6
    ELSE IF enriched_telemetry.tire_degradation_rate < 20 THEN 4
    ELSE NeutralValue

differential_slip(enriched_telemetry) ==
    IF enriched_telemetry.tire_cliff_risk > 70 THEN 7
    ELSE IF enriched_telemetry.pace_trend = "declining" THEN 6
    ELSE IF enriched_telemetry.pace_trend = "improving" THEN 4
    ELSE NeutralValue

\* "if pit_window and pit_window[0] <= lap_number <= pit_window[1]"
in_pit_windowMut(lap_number, pit_window) ==
    /\ pit_window # <<>>
    /\ pit_window[1] < lap_number
    /\ lap_number <= pit_window[2]
in_pit_window(lap_number, pit_window) ==
    /\ pit_window # <<>>
    /\ pit_window[1] <= lap_number
    /\ lap_number <= pit_window[2]

\* min(value + 1, 10)
conservativeMut(value) == value + value
conservative(value) == Min(value + 1, MaxControl)

\* top_strategy is logged, and nothing else.
generate_control_command(lap_number, top_strategy, enriched_telemetry) ==
    IF in_pit_window(lap_number, enriched_telemetry.optimal_pit_window)
    THEN Command(conservative(brake_bias(enriched_telemetry)),
                 conservative(differential_slip(enriched_telemetry)))
    ELSE Command(brake_bias(enriched_telemetry),
                 differential_slip(enriched_telemetry))

\* ---------------------------------------------------------------- messages
\* Outbound channel messages.
Msg(type, lap, bb, ds, total) ==
    [type |-> type, lap |-> lap, brake_bias |-> bb, differential_slip |-> ds,
     total_strategies |-> total]

Welcome == Msg("connection_established", NoValue, NoValue, NoValue, NoValue)
Pong == Msg("pong", NoValue, NoValue, NoValue, NoValue)
ErrorMsg(lap) == Msg("error", lap, NoValue, NoValue, NoValue)
\* "Processing strategies (maintaining previous settings)..."
Ack(lap, cmd) ==
    Msg("control_command", lap, cmd.brake_bias, cmd.differential_slip, NoValue)
\* "Collecting data (n/3 laps)"
CollectingMut(lap) == Msg("control_command", lap, NoValue, NoValue, NoValue)
Collecting(lap) ==
    Msg("control_command", lap, NeutralValue, NeutralValue, NoValue)
Update(lap, cmd, total) ==
    Msg("control_command_update", lap, cmd.brake_bias, cmd.differential_slip,
        total)

\* Inbound channel messages: kind is the message type, form tells how a
\* telemetry message parses.
Inbound(kind, form, enriched) ==
    [kind |-> kind, form |-> form, enriched |-> enriched]

NoInbound == Inbound("none", "none", NoEnriched)

\* What strategy_generator.generate does: it raises, or it returns the
\* list of validated strategies (here its length).
GenOutcomes == {"fail", "none_valid", "some_valid"}
TotalOfMut(outcome) == 1
TotalOf(outcome) == IF outcome = "some_valid" THEN 1 ELSE 0

\* ------------------------------------------------------------------- state
VARIABLES
    telemetry_buffer,       \* module-level TelemetryBuffer (its deque)
    last_control_command,   \* module-level last command
    current_race_context,   \* module-level race context
    active_connections,     \* websocket_manager.active_connections
    pc,                     \* per session: idle, recv, generating, closed
    cur,                    \* per session: the inbound message last received
    sent,                   \* per session: messages sent since that receive
    first_sent,             \* per session: type of the first outbound message
    gen_calls,              \* per session: generate calls for cur
    own_adds,               \* per session: records it added since connect
    own_last,               \* per session: values of its latest update
    wf_count,               \* per session: well-formed telemetry received
    nevents,                \* connects, messages and pushes handled so far
    handler,                \* who handled the latest of them (0: the webhook)
    wh_pc,                  \* webhook request: idle, generating
    wh_lap,                 \* webhook request: lap of its record
    wh_resp,                \* webhook: the last response
    max_size,               \* a TelemetryBuffer on its own: its capacity
    buffer,                 \*   its deque
    added,                  \*   the records added since the latest clear
    limit,                  \*   the argument of the latest get_latest
    latest,                 \*   and what it returned
    race_info,              \* StrategyValidator: race_context.race_info
    strategy,               \*   argument of the latest validate_strategy
    verdict,                \*   and the (is_valid, error) it returned
    strategies,             \*   argument of the latest validate_strategies
    valid_strategies,       \*   and the list it returned
    max_retries,            \* GeminiClient: self.max_retries
    demo_mode,              \*   self.demo_mode
    demo_cache,             \*   self._demo_cache
    call,                   \*   generate_json: the prompt and temperature given
    prompt,                 \*   its local prompt
    attempt,                \*   its loop counter
    last_error,             \*   its local last_error
    attempts,               \*   what each attempt of the call sent and got
    call_result,            \*   what the call returned or raised
    response_text,          \* _parse_json: a response text, bare
    fenced_text,            \*   the same text inside a code fence
    parsed_bare,            \*   what _parse_json made of the bare text
    parsed_fenced,          \*   what it made of the fenced text
    synth_lap,              \* generate_control_command: lap_number
    synth_strategy,         \*   strategy
    synth_record,           \*   enriched_telemetry
    control_command,        \*   the command returned
    previous_synthesis,     \*   the call before: lap, record, command
    brainstorm_request,     \* brainstorm_strategies: request.enriched_telemetry
    buffer_data,            \*   telemetry_buffer.get_latest(limit=10)
    fetched,                \*   what telemetry_client.fetch_latest did
    enriched_data,          \*   the telemetry given to the generator
    brainstorm_status,      \*   the HTTP status of the response
    recent,                 \* hpcsim.api: _recent
    max_recent,             \*   _MAX_RECENT
    callback_url,           \*   whether _CALLBACK_URL is set
    api_calls,              \*   requests handled so far
    api_call,               \* the latest request and its response
    enricher_state,         \* Enricher: self.state
    emitted,                \*   the enriched record returned by the latest call
    emitted_before,         \*   the record returned by the call before
    race_context_out,       \*   the race context of enrich_with_context
    enrich_calls,           \* calls so far
    raw_payload,            \* Adapter: the payload handed to normalize_telemetry
    normalized,             \* what the call returned or raised
    simulated_payload,      \* Simulator: the payload lap_to_enriched_payload built last
    generate_call,          \* StrategyGenerator: what the service returned, and the race
    generated               \*   what generate returned or raised

vars == <<telemetry_buffer, last_control_command, current_race_context,
          active_connections, pc, cur, sent, first_sent,
          gen_calls, own_adds, own_last, wf_count, nevents, handler,
          wh_pc, wh_lap, wh_resp,
          max_size, buffer, added, limit, latest,
          race_info, strategy, verdict, strategies, valid_strategies,
          max_retries, demo_mode, demo_cache, call, prompt, attempt,
          last_error, attempts, call_result,
          response_text, fenced_text, parsed_bare, parsed_fenced,
          synth_lap, synth_strategy, synth_record, control_command,
          previous_synthesis,
          brainstorm_request, buffer_data, fetched, enriched_data,
          brainstorm_status,
          recent, max_recent, callback_url, api_calls, api_call,
          enricher_state, emitted, emitted_before, race_context_out, enrich_calls,
          raw_payload, normalized,
          simulated_payload,
          generate_call, generated>>

globals == <<telemetry_buffer, last_control_command, current_race_context,
             active_connections>>
webhook == <<wh_pc, wh_lap, wh_resp>>
\* The components exercised on their own, which the handlers leave alone.
own_buffer == <<max_size, buffer, added, limit, latest>>
validator == <<race_info, strategy, verdict, strategies, valid_strategies>>
client == <<max_retries, demo_mode, demo_cache, call, prompt, attempt,
            last_error, attempts, call_result>>
parser == <<response_text, fenced_text, parsed_bare, parsed_fenced>>
synthesizer == <<synth_lap, synth_strategy, synth_record, control_command,
                 previous_synthesis>>
brainstorm == <<brainstorm_request, buffer_data, fetched, enriched_data,
                brainstorm_status>>
enrichment_api == <<recent, max_recent, callback_url, api_calls, api_call>>
enricher == <<enricher_state, emitted, emitted_before, race_context_out, enrich_calls>>
adapter == <<raw_payload, normalized>>
simulator == <<simulated_payload>>
generator == <<generate_call, generated>>
components == <<own_buffer, validator, client, parser, synthesizer,
                brainstorm, enrichment_api,
                enricher,
                adapter,
                simulator,
                generator>>

Response(st, lap, n) == [status |-> st, lap |-> lap, buffer_size |-> n]
NoResponse == Response("none", NoValue, NoValue)

\* The service after startup.
ServiceInit ==
    /\ telemetry_buffer = <<>>
    /\ last_control_command = NeutralCommand
    /\ current_race_context = NoContext
    /\ active_connections = <<>>
    /\ pc = [s \in AllSessions |-> "idle"]
    /\ cur = [s \in AllSessions |-> NoInbound]
    /\ sent = [s \in AllSessions |-> <<>>]
    /\ first_sent = [s \in AllSessions |-> "none"]
    /\ gen_calls = [s \in AllSessions |-> 0]
    /\ own_adds = [s \in AllSessions |-> 0]
    /\ own_last = [s \in AllSessions |-> NeutralCommand]
    /\ wf_count = [s \in AllSessions |-> 0]
    /\ nevents = 0
    /\ handler = 0
    /\ wh_pc = "idle"
    /\ wh_lap = NoValue
    /\ wh_resp = NoResponse

\* TelemetryBuffer(max_size): an empty deque.
BufferInit(capacity) ==
    /\ max_size = capacity
    /\ buffer = <<>>
    /\ added = <<>>
    /\ limit = NoValue
    /\ latest = <<>>

\* Strategies, as far as the validator reads them.
Strategy(stop_count, pit_laps, tire_sequence) ==
    [stop_count |-> stop_count, pit_laps |-> pit_laps,
     tire_sequence |-> tire_sequence]
NoStrategy == Strategy(NoValue, <<>>, <<>>)
\* response.strategies[0] if response.strategies else None
TopStrategy(outcome) ==
    IF outcome = "some_valid" THEN Strategy(1, <<2>>, <<"soft", "hard">>)
    ELSE NoStrategy
RaceInfo(current_lap, total_laps) ==
    [current_lap |-> current_lap, total_laps |-> total_laps]
NoVerdict == <<FALSE, "not called">>

\* No validation was asked for yet, in a race at current_lap of total_laps.
ValidatorInit(info) ==
    /\ race_info = info
    /\ strategy = NoStrategy
    /\ verdict = NoVerdict
    /\ strategies = <<>>
    /\ valid_strategies = <<>>

\* Prompts: a text, its length and the JSON emphasis paragraphs appended.
Prompt(text, length, emphasis) ==
    [text |-> text, length |-> length, emphasis |-> emphasis]
NoPrompt == Prompt("", 0, 0)
\* The prompts the generator builds hold no emphasis paragraph; one is
\* shorter than the cache key prefix, the other longer.
PromptInputs == {Prompt("brainstorm", 2 * KeyLength, 0),
                 Prompt("short", KeyLength \div 2, 0)}
\* Temperatures in tenths: the generator calls with temperature=0.9.
Temperatures == {9}
Results == {"plan A", "plan B"}
NoResult == "none"

\* _get_cache_key: the first 100 characters of the prompt and the
\* temperature. A paragraph appended to a shorter prompt is part of them.
get_cache_key(p, temperature) ==
    <<p.text, IF p.length < KeyLength THEN p.emphasis ELSE 0, temperature>>
CacheKeys ==
    {get_cache_key(Prompt(q.text, q.length, e), temp) :
        q \in PromptInputs, e \in 0..1, temp \in Temperatures}

Call(p, temperature) == [prompt |-> p, temperature |-> temperature]
NoCall == Call(NoPrompt, NoValue)
\* last_error: "JSON parsing error: ..." or "API error: ...".
Error(prefix, reason) == [prefix |-> prefix, reason |-> reason]
NoError == Error("None", "")
\* A call's end: a returned value or a raised "Failed after n attempts.
\* Last error: ...", or none while it runs.
Outcome(status, value, n, error) ==
    [status |-> status, value |-> value, attempts |-> n, last |-> error]
NoOutcome == Outcome("none", NoResult, 0, NoError)
Running == Outcome("running", NoResult, 0, NoError)

\* GeminiClient(): the settings read and an empty cache.
ClientInit(retries, demo) ==
    /\ max_retries = retries
    /\ demo_mode = demo
    /\ demo_cache = [k \in CacheKeys |-> NoResult]
    /\ call = NoCall
    /\ prompt = NoPrompt
    /\ attempt = 0
    /\ last_error = NoError
    /\ attempts = <<>>
    /\ call_result = NoOutcome

\* What _parse_json returns, or the json.JSONDecodeError it raises.
Loaded(value) == [ok |-> TRUE, value |-> value]
DecodeError == [ok |-> FALSE, value |-> <<>>]
NotParsed == [ok |-> FALSE, value |-> <<"not called">>]

\* No text was parsed yet.
ParserInit ==
    /\ response_text = <<>>
    /\ fenced_text = <<>>
    /\ parsed_bare = NotParsed
    /\ parsed_fenced = NotParsed

Synthesis(lap, record, command) ==
    [lap |-> lap, record |-> record, command |-> command]
NoSynthesis == Synthesis(NoValue, NoEnriched, NeutralCommand)
\* No command was synthesized yet.
SynthesizerInit ==
    /\ synth_lap = NoValue
    /\ synth_strategy = NoStrategy
    /\ synth_record = NoEnriched
    /\ control_command = NeutralCommand
    /\ previous_synthesis = NoSynthesis

\* What fetch_latest did: the records of the enrichment service, or the
\* exception it raised.
Fetched(kind, records) == [kind |-> kind, records |-> records]
NotFetched == Fetched("not called", <<>>)
\* No brainstorm request was handled yet.
BrainstormInit ==
    /\ brainstorm_request = <<>>
    /\ buffer_data = <<>>
    /\ fetched = NotFetched
    /\ enriched_data = <<>>
    /\ brainstorm_status = NoValue

\* A request of the enrichment API and its response.
ApiCall(op, argument, forward, status, body) ==
    [op |-> op, argument |-> argument, forward |-> forward,
     status |-> status, body |-> body]
NoApiCall == ApiCall("none", NoValue, "none", NoValue, <<>>)
\* The enrichment API after startup: nothing stored.
ApiInit(capacity, configured) ==
    /\ recent = <<>>
    /\ max_recent = capacity
    /\ callback_url = configured
    /\ api_calls = 0
    /\ api_call = NoApiCall

\* EnricherState(): no lap seen, no wear. The two dicts are functions of the
\* laps they hold; cumulative_wear is in units of 10^-8.
EnricherState(last_lap, lap_speeds, lap_throttle_avg, cumulative_wear, track_name, total_laps, driver_name, current_position, tire_compound_history) ==
    [last_lap |-> last_lap, lap_speeds |-> lap_speeds,
     lap_throttle_avg |-> lap_throttle_avg,
     cumulative_wear |-> cumulative_wear, track_name |-> track_name,
     total_laps |-> total_laps, driver_name |-> driver_name,
     current_position |-> current_position,
     tire_compound_history |-> tire_compound_history]
NewEnricherState ==
    EnricherState(NoValue, <<>>, <<>>, 0, "Unknown Circuit", DefaultTotalLaps,
                  "Driver", DefaultPosition, <<>>)
\* An enriched record of the Enricher: the five scores in thousandths.
Metrics(lap, aero, tire, ers, fuel, consistency, weather) ==
    [lap |-> lap, aero_efficiency |-> aero, tire_degradation_index |-> tire,
     ers_charge |-> ers, fuel_optimization_score |-> fuel,
     driver_consistency |-> consistency, weather_impact |-> weather]
NoMetrics == Metrics(NoValue, 0, 0, 0, 0, 0, "none")
NoRaceContext == [current_lap |-> NoValue]
\* Enricher(): nothing enriched yet.
EnricherInit ==
    /\ enricher_state = NewEnricherState
    /\ emitted = NoMetrics
    /\ emitted_before = NoMetrics
    /\ race_context_out = NoRaceContext
    /\ enrich_calls = 0

\* A JSON value of a raw payload: a key that is absent, null, a number (n in
\* thousandths), a text (n its reading as a number, NoParse when it has none),
\* a float infinity (1e999), an integer beyond the floats (10^400), a list.
NoParse == 0 - 1000000
Value(kind, text, n) == [kind |-> kind, text |-> text, n |-> n]
Missing == Value("absent", "", 0)
Null == Value("null", "", 0)
Number(n) == Value("number", "", n)
Text(text, n) == Value("text", text, n)
Infinity == Value("infinity", "", 0)
Huge == Value("huge", "", 0)
Items == Value("list", "", 0)
\* the alias table of normalize_telemetry, canonical name first
Aliases(key) ==
    CASE key = "lap" -> <<"lap", "Lap", "LapNumber", "lap_number">>
      [] key = "speed" -> <<"speed", "Speed">>
      [] key = "throttle" -> <<"throttle", "Throttle">>
      [] key = "brake" -> <<"brake", "Brake", "Brakes">>
      [] key = "tire_compound" ->
             <<"tire_compound", "Compound", "TyreCompound", "Tire">>
      [] key = "fuel_level" -> <<"fuel_level", "Fuel", "FuelRel", "FuelLevel">>
      [] key = "ers" -> <<"ers", "ERS", "ERSCharge">>
      [] key = "track_temp" -> <<"track_temp", "TrackTemp", "track_temperature">>
      [] key = "rain_probability" ->
             <<"rain_probability", "RainProb", "PrecipProb">>
      [] key = "total_laps" -> <<"total_laps", "TotalLaps">>
      [] key = "track_name" -> <<"track_name", "TrackName", "Circuit">>
      [] key = "driver_name" -> <<"driver_name", "DriverName", "Driver">>
      [] key = "current_position" -> <<"current_position", "Position">>
      [] key = "tire_life_laps" -> <<"tire_life_laps", "TireAge", "tire_age">>
      [] key = "rainfall" -> <<"rainfall", "Rainfall", "Rain">>
Canonical ==
    {"lap", "speed", "throttle", "brake", "tire_compound", "fuel_level", "ers",
     "track_temp", "rain_probability", "total_laps", "track_name",
     "driver_name", "current_position", "tire_life_laps", "rainfall"}
Keys == UNION {{Aliases(key)[i] : i \in DOMAIN Aliases(key)} : key \in Canonical}
EmptyPayload == [k \in Keys |-> Missing]
\* what normalize_telemetry returns: the six keys it always sets, the nine it
\* sets when it has a value (Missing otherwise), or the exception it raised
Normalized(raised, lap, speed, throttle, brake, tire_compound, fuel_level, ers, track_temp, rain_probability, total_laps, track_name, driver_name, current_position, tire_life_laps, rainfall) ==
    [raised |-> raised, lap |-> lap, speed |-> speed, throttle |-> throttle,
     brake |-> brake, tire_compound |-> tire_compound,
     fuel_level |-> fuel_level, ers |-> ers, track_temp |-> track_temp,
     rain_probability |-> rain_probability, total_laps |-> total_laps,
     track_name |-> track_name, driver_name |-> driver_name,
     current_position |-> current_position,
     tire_life_laps |-> tire_life_laps, rainfall |-> rainfall]
Raising(error) ==
    Normalized(error, Missing, Missing, Missing, Missing, Missing, Missing,
               Missing, Missing, Missing, Missing, Missing, Missing, Missing,
               Missing, Missing)
NotNormalized == Raising("not called")
AdapterInit ==
    /\ raw_payload = EmptyPayload
    /\ normalized = NotNormalized

\* the simulator has built no payload yet
NoSimulated == [type |-> "none"]
SimulatorInit == simulated_payload = NoSimulated

\* What gemini_client.generate_json did for generate: it raised, or returned
\* an object without 'strategies', with 'strategies' null, or with a list of
\* candidates; and the race the strategies are validated for.
ServiceResult(kind, candidates) == [kind |-> kind, candidates |-> candidates]
GenerateCall(result, info) == [result |-> result, race_info |-> info]
NoGenerateCall == GenerateCall(ServiceResult("none", <<>>), RaceInfo(0, 1))
\* What generate did: the strategies of its BrainstormResponse, or the
\* exception that left it.
Returned(list) == [raised |-> "none", strategies |-> list]
Failure(error) == [raised |-> error, strategies |-> <<>>]
NotGenerated == Failure("not called")
GeneratorInit ==
    /\ generate_call = NoGenerateCall
    /\ generated = NotGenerated

Init ==
    /\ ServiceInit
    /\ BufferInit(BufferMaxSize)
    /\ ValidatorInit(RaceInfo(0, 1))
    /\ ClientInit(GeminiMaxRetries, FALSE)
    /\ ParserInit
    /\ SynthesizerInit
    /\ BrainstormInit
    /\ ApiInit(MaxRecent, FALSE)
    /\ EnricherInit
    /\ AdapterInit
    /\ SimulatorInit
    /\ GeneratorInit

\* ------------------------------------------------- websocket_pi_endpoint
session == <<pc, cur, sent, first_sent, gen_calls, own_adds,
             own_last, wf_count>>

\* One more connect, inbound message or webhook push is handled, by who.
Event(who) ==
    /\ nevents < MaxEvents
    /\ nevents' = nevents + 1
    /\ handler' = who

\* The first outbound message of a session, once one is sent.
FirstSent(prev, msgs) ==
    IF prev = "none" /\ msgs # <<>> THEN msgs[1].type ELSE prev

\* websocket_manager.connect, telemetry_buffer.clear(), the reset of the last
\* command and the welcome message. Slots are interchangeable: a new
\* connection takes the lowest slot never used, or a closed one.
Connect(s) ==
    /\ pc[s] \in {"idle", "closed"}
    /\ \A r \in AllSessions : r < s => pc[r] # "idle"
    /\ Event(s)
    /\ active_connections' = connect(active_connections, s)
    /\ telemetry_buffer' = clear(telemetry_buffer)
    /\ last_control_command' = NeutralCommand
    /\ pc' = [pc EXCEPT ![s] = "recv"]
    /\ cur' = [cur EXCEPT ![s] = NoInbound]
    /\ sent' = [sent EXCEPT ![s] = <<Welcome>>]
    /\ first_sent' = [first_sent EXCEPT ![s] = FirstSent("none", <<Welcome>>)]
    /\ gen_calls' = [gen_calls EXCEPT ![s] = 0]
    /\ own_adds' = [own_adds EXCEPT ![s] = 0]
    /\ own_last' = [own_last EXCEPT ![s] = NeutralCommand]
    /\ wf_count' = [wf_count EXCEPT ![s] = 0]
    /\ UNCHANGED <<current_race_context, webhook, components>>

\* The finally block: websocket_manager.disconnect and telemetry_buffer.clear.
\* The handler's locals end with it.
Finally(s) ==
    /\ active_connections' = disconnect(active_connections, s)
    /\ telemetry_buffer' = clear(telemetry_buffer)
    /\ pc' = [pc EXCEPT ![s] = "closed"]
    /\ gen_calls' = [gen_calls EXCEPT ![s] = 0]
    /\ own_adds' = [own_adds EXCEPT ![s] = 0]
    /\ own_last' = [own_last EXCEPT ![s] = NeutralCommand]
    /\ wf_count' = [wf_count EXCEPT ![s] = 0]

\* The loop is at "data = await websocket.receive_json()".
CanReceiveMut(s) == pc[s] \in {"recv", "generating"}
CanReceive(s) == pc[s] = "recv"

\* A message is taken from the channel by session s.
Take(s, kind, form, enriched) ==
    /\ CanReceive(s)
    /\ Event(s)
    /\ cur' = [cur EXCEPT ![s] = Inbound(kind, form, enriched)]

\* The replies to the message just taken, with no generation pending.
Reply(s, msgs) ==
    /\ sent' = [sent EXCEPT ![s] = msgs]
    /\ first_sent' = [first_sent EXCEPT ![s] = FirstSent(first_sent[s], msgs)]

\* len(buffer_data) >= 3
EnoughDataMut(data) == Len(data) >= MinRecords - 1
EnoughData(data) == Len(data) >= MinRecords

\* The values the immediate acknowledgment carries.
AckCommandMut(last) == NeutralCommand
AckCommand(last) == last

\* A telemetry message whose enriched payload and race context both parse.
RecvTelemetry(s, e) ==
    LET buf == add(telemetry_buffer, e)
        data == get_latest(buf, LatestLimit)
    IN  /\ Take(s, "telemetry", "ok", e)
        /\ telemetry_buffer' = buf
        /\ current_race_context' = RaceContextOf(e.lap)
        /\ own_adds' = [own_adds EXCEPT ![s] = @ + 1]
        /\ wf_count' = [wf_count EXCEPT ![s] = @ + 1]
        /\ IF EnoughData(data)
           THEN /\ Reply(s, <<Ack(e.lap, AckCommand(last_control_command))>>)
                /\ gen_calls' = [gen_calls EXCEPT ![s] = 1]
                /\ pc' = [pc EXCEPT ![s] = "generating"]
           ELSE /\ Reply(s, <<Collecting(e.lap)>>)
                /\ gen_calls' = [gen_calls EXCEPT ![s] = 0]
                /\ pc' = pc
        /\ UNCHANGED <<last_control_command, active_connections, own_last,
                       webhook, components>>

\* A telemetry message without enriched_telemetry or without race_context:
\* a warning is logged.
RecvTelemetryIncomplete(s) ==
    /\ Take(s, "telemetry", "incomplete", NoEnriched)
    /\ Reply(s, <<>>)
    /\ gen_calls' = [gen_calls EXCEPT ![s] = 0]
    /\ UNCHANGED <<globals, pc, own_adds, own_last, wf_count,
                   webhook, components>>

\* EnrichedTelemetryWebhook(**enriched) raises: nothing is stored.
RecvTelemetryBadEnriched(s) ==
    /\ Take(s, "telemetry", "bad_enriched", NoEnriched)
    /\ Reply(s, <<ErrorMsg(NoValue)>>)
    /\ gen_calls' = [gen_calls EXCEPT ![s] = 0]
    /\ UNCHANGED <<globals, pc, own_adds, own_last, wf_count,
                   webhook, components>>

\* RaceContext(**race_context_data) raises, after the record was stored.
RecvTelemetryBadContext(s, e) ==
    /\ Take(s, "telemetry", "bad_context", e)
    /\ telemetry_buffer' = add(telemetry_buffer, e)
    /\ own_adds' = [own_adds EXCEPT ![s] = @ + 1]
    /\ Reply(s, <<ErrorMsg(NoValue)>>)
    /\ gen_calls' = [gen_calls EXCEPT ![s] = 0]
    /\ UNCHANGED <<last_control_command, current_race_context,
                   active_connections, pc, own_last, wf_count,
                   webhook, components>>

PingRepliesMut == <<>>
PingReplies == <<Pong>>

RecvPing(s) ==
    /\ Take(s, "ping", "none", NoEnriched)
    /\ Reply(s, PingReplies)
    /\ gen_calls' = [gen_calls EXCEPT ![s] = 0]
    /\ UNCHANGED <<globals, pc, own_adds, own_last, wf_count,
                   webhook, components>>

\* A message of a type the loop has no branch for.
RecvOtherType(s) ==
    /\ Take(s, "other", "none", NoEnriched)
    /\ Reply(s, <<>>)
    /\ gen_calls' = [gen_calls EXCEPT ![s] = 0]
    /\ UNCHANGED <<globals, pc, own_adds, own_last, wf_count,
                   webhook, components>>

\* {"type": "disconnect"}: break, then the finally block.
RecvDisconnect(s) ==
    /\ Take(s, "disconnect", "none", NoEnriched)
    /\ Reply(s, <<>>)
    /\ Finally(s)
    /\ UNCHANGED <<last_control_command, current_race_context, webhook, components>>

\* A JSON value that is not an object: data.get raises, the outer handler
\* logs it, then the finally block.
RecvNotObject(s) ==
    /\ Take(s, "not_object", "none", NoEnriched)
    /\ Reply(s, <<>>)
    /\ Finally(s)
    /\ UNCHANGED <<last_control_command, current_race_context, webhook, components>>

\* receive_json raises WebSocketDisconnect.
TransportDisconnect(s) ==
    /\ pc[s] = "recv"
    /\ Finally(s)
    /\ cur' = [cur EXCEPT ![s] = NoInbound]
    /\ sent' = [sent EXCEPT ![s] = <<>>]
    /\ UNCHANGED <<last_control_command, current_race_context, first_sent,
                   nevents, handler, webhook, components>>

\* The last command after strategy_generator.generate returned or raised.
CommandAfterGenerationMut(outcome, prev, cmd) ==
    IF outcome = "fail" THEN NeutralCommand ELSE cmd
CommandAfterGeneration(outcome, prev, cmd) ==
    IF outcome = "fail" THEN prev ELSE cmd

\* The second message of a lap: the update, or the error.
SecondMessageMut(outcome, lap, cmd) == Update(lap, cmd, TotalOf(outcome))
SecondMessage(outcome, lap, cmd) ==
    IF outcome = "fail" THEN ErrorMsg(lap)
    ELSE Update(lap, cmd, TotalOf(outcome))

\* strategy_generator.generate is over: synthesis, the store of the new
\* command and the second message.
GenerateDone(s, outcome) ==
    LET e == cur[s].enriched
        cmd == generate_control_command(e.lap, TopStrategy(outcome), e)
    IN  /\ pc[s] = "generating"
        /\ last_control_command' =
               CommandAfterGeneration(outcome, last_control_command, cmd)
        /\ sent' = [sent EXCEPT ![s] = Append(@, SecondMessage(outcome, e.lap, cmd))]
        /\ own_last' = [own_last EXCEPT ![s] = IF outcome = "fail" THEN @ ELSE cmd]
        /\ pc' = [pc EXCEPT ![s] = "recv"]
        /\ UNCHANGED <<telemetry_buffer, current_race_context,
                       active_connections, cur, first_sent,
                       gen_calls, own_adds, wf_count, nevents, handler,
                       webhook, components>>

\* The same, with the client gone: every send raises, up to the outer
\* handler, then the finally block.
GenerateDoneSendFails(s, outcome) ==
    LET e == cur[s].enriched
        cmd == generate_control_command(e.lap, TopStrategy(outcome), e)
    IN  /\ pc[s] = "generating"
        /\ last_control_command' =
               CommandAfterGeneration(outcome, last_control_command, cmd)
        /\ Finally(s)
        /\ cur' = [cur EXCEPT ![s] = NoInbound]
        /\ sent' = [sent EXCEPT ![s] = <<>>]
        /\ UNCHANGED <<current_race_context, first_sent, nevents, handler,
                       webhook, components>>

SessionNext(s) ==
    \/ Connect(s)
    \/ \E e \in TelemetryInputs : RecvTelemetry(s, e)
    \/ RecvTelemetryIncomplete(s)
    \/ RecvTelemetryBadEnriched(s)
    \/ \E e \in OtherInputs : RecvTelemetryBadContext(s, e)
    \/ RecvPing(s)
    \/ RecvOtherType(s)
    \/ RecvDisconnect(s)
    \/ RecvNotObject(s)
    \/ TransportDisconnect(s)
    \/ \E o \in GenOutcomes : GenerateDone(s, o)
    \/ \E o \in GenOutcomes : GenerateDoneSendFails(s, o)

\* ---------------------------------------------- ingest_enriched_telemetry
\* POST /api/ingest/enriched up to the call of strategy_generator.generate.
IngestEnriched(e) ==
    LET buf == add(telemetry_buffer, e)
        data == get_latest(buf, LatestLimit)
    IN  /\ wh_pc = "idle"
        /\ Event(0)
        /\ telemetry_buffer' = buf
        /\ current_race_context' = RaceContextOf(e.lap)
        /\ wh_lap' = e.lap
        /\ IF data # <<>> /\ EnoughData(data)
           THEN /\ wh_pc' = "generating"
                /\ wh_resp' = NoResponse
           ELSE /\ wh_pc' = "idle"
                /\ wh_resp' = Response("received_waiting_for_more_data",
                                       e.lap, size(buf))
        /\ UNCHANGED <<last_control_command, active_connections, session,
                   components>>

\* The generation of a webhook request is over: its response.
IngestGenerateDone(outcome) ==
    /\ wh_pc = "generating"
    /\ wh_pc' = "idle"
    /\ wh_resp' = Response(IF outcome = "fail"
                           THEN "received_but_brainstorm_failed"
                           ELSE "received_and_processed",
                           wh_lap, size(telemetry_buffer))
    /\ UNCHANGED <<globals, session, nevents, handler, wh_lap, components>>

WebhookNext ==
    \/ \E e \in OtherInputs : IngestEnriched(e)
    \/ \E o \in GenOutcomes : IngestGenerateDone(o)

\* --------------------------------------------------------- specifications
\* Every session slot and the webhook.
Next ==
    \/ \E s \in AllSessions : SessionNext(s)
    \/ WebhookNext

Spec == Init /\ [][Next]_vars

\* One session at a time and no webhook.
NextSingle == SessionNext(1)

SpecSingle == Init /\ [][NextSingle]_vars

\* ------------------------------------------- a TelemetryBuffer on its own
\* Everything the service holds, which a component on its own leaves alone.
service == <<globals, session, nevents, handler, webhook>>
\* What the actions of one component leave alone.
beside_buffer == <<service, validator, client, parser, synthesizer,
                  brainstorm, enrichment_api,
                  enricher,
                  adapter,
                  simulator,
                  generator>>
beside_validator == <<service, own_buffer, client, parser, synthesizer,
                  brainstorm, enrichment_api,
                  enricher,
                  adapter,
                  simulator,
                  generator>>
beside_client == <<service, own_buffer, validator, parser, synthesizer,
                  brainstorm, enrichment_api,
                  enricher,
                  adapter,
                  simulator,
                  generator>>
beside_parser == <<service, own_buffer, validator, client, synthesizer,
                  brainstorm, enrichment_api,
                  enricher,
                  adapter,
                  simulator,
                  generator>>
beside_generator ==
    <<service, own_buffer, validator, client, parser, synthesizer, brainstorm,
      enrichment_api, enricher, adapter, simulator>>
beside_simulator ==
    <<service, own_buffer, validator, client, parser, synthesizer, brainstorm,
      enrichment_api, enricher, adapter,
                  generator>>
beside_adapter ==
    <<service, own_buffer, validator, client, parser, synthesizer, brainstorm,
      enrichment_api, enricher,
                  simulator,
                  generator>>
beside_enricher ==
    <<service, own_buffer, validator, client, parser, synthesizer, brainstorm,
      enrichment_api, adapter,
                  simulator,
                  generator>>
beside_enrichment_api ==
    <<service, own_buffer, validator, client, parser, synthesizer, brainstorm,
                  enricher,
                  adapter,
                  simulator,
                  generator>>
beside_synthesizer == <<service, own_buffer, validator, client, parser,
                  brainstorm, enrichment_api,
                  enricher,
                  adapter,
                  simulator,
                  generator>>

\* Records a caller adds: two of them have the same lap number.
SecondLapOne == Enriched(1, 50, "improving", 5, 25, 30)
BufferInputs == {FreshTyres, WornTyres, SecondLapOne}
\* Arguments of get_latest.
Limits == 0..(MaxCapacity + 1)

BufferAdd(telemetry) ==
    /\ Len(added) < MaxAdds
    /\ buffer' = append(buffer, max_size, telemetry)
    /\ added' = Append(added, telemetry)
    /\ limit' = NoValue
    /\ latest' = <<>>
    /\ UNCHANGED <<max_size, beside_buffer>>

BufferClear ==
    /\ buffer' = clear(buffer)
    /\ added' = <<>>
    /\ limit' = NoValue
    /\ latest' = <<>>
    /\ UNCHANGED <<max_size, beside_buffer>>

BufferGetLatest(n) ==
    /\ limit' = n
    /\ latest' = get_latest(buffer, n)
    /\ UNCHANGED <<max_size, buffer, added, beside_buffer>>

InitBuffer ==
    /\ ServiceInit
    /\ \E capacity \in 1..MaxCapacity : BufferInit(capacity)
    /\ ValidatorInit(RaceInfo(0, 1))
    /\ ClientInit(GeminiMaxRetries, FALSE)
    /\ ParserInit
    /\ SynthesizerInit
    /\ BrainstormInit
    /\ ApiInit(MaxRecent, FALSE)
    /\ EnricherInit
    /\ AdapterInit
    /\ SimulatorInit
    /\ GeneratorInit

NextBuffer ==
    \/ \E telemetry \in BufferInputs : BufferAdd(telemetry)
    \/ BufferClear
    \/ \E n \in Limits : BufferGetLatest(n)

SpecBuffer == InitBuffer /\ [][NextBuffer]_vars

\* ------------------------------------------------------ StrategyValidator
\* sorted(list): insertion into the sorted rest.
RECURSIVE Insert(_, _)
Insert(x, s) ==
    IF s = <<>> THEN <<x>>
    ELSE IF x <= Head(s) THEN <<x>> \o s
    ELSE <<Head(s)>> \o Insert(x, Tail(s))
RECURSIVE sorted(_)
sorted(s) == IF s = <<>> THEN <<>> ELSE Insert(Head(s), sorted(Tail(s)))

\* set(list)
set(s) == {s[i] : i \in 1..Len(s)}

\* pit_lap <= current_lap
InPastMut(pit_lap, current_lap) == pit_lap <= current_lap + 1
InPast(pit_lap, current_lap) == pit_lap <= current_lap

\* The loop over the pit laps: the error of the first one out of range.
RECURSIVE RangeError(_, _)
RangeError(pit_laps, info) ==
    IF pit_laps = <<>> THEN ""
    ELSE IF InPast(Head(pit_laps), info.current_lap) THEN "in the past"
    ELSE IF Head(pit_laps) >= info.total_laps THEN "beyond race end"
    ELSE RangeError(Tail(pit_laps), info)

\* len(unique_compounds) < 2
TooFewCompoundsMut(tire_sequence) == Cardinality(set(tire_sequence)) < 1
TooFewCompounds(tire_sequence) == Cardinality(set(tire_sequence)) < 2

\* validate_strategy: (is_valid, error_message); the message by its kind.
validate_strategy(s, info) ==
    IF RangeError(s.pit_laps, info) # ""
        THEN <<FALSE, RangeError(s.pit_laps, info)>>
    ELSE IF Len(s.pit_laps) > 1 /\ s.pit_laps # sorted(s.pit_laps)
        THEN <<FALSE, "not ascending">>
    ELSE IF Len(s.pit_laps) # s.stop_count
        THEN <<FALSE, "stop count">>
    ELSE IF Len(s.tire_sequence) # s.stop_count + 1
        THEN <<FALSE, "tire sequence length">>
    ELSE IF TooFewCompounds(s.tire_sequence)
        THEN <<FALSE, "compounds">>
    ELSE <<TRUE, "">>

\* validate_strategies: the loop that keeps the valid candidates.
RECURSIVE validate_strategiesMut(_, _)
validate_strategiesMut(list, info) ==
    IF list = <<>> THEN <<>>
    ELSE IF validate_strategy(Head(list), info)[1]
         THEN Append(validate_strategiesMut(Tail(list), info), Head(list))
         ELSE validate_strategiesMut(Tail(list), info)
RECURSIVE validate_strategies(_, _)
validate_strategies(list, info) ==
    IF list = <<>> THEN <<>>
    ELSE IF validate_strategy(Head(list), info)[1]
         THEN <<Head(list)>> \o validate_strategies(Tail(list), info)
         ELSE validate_strategies(Tail(list), info)

\* Sequences over a set, up to a length.
SeqsUpTo(S, n) == UNION {[1..k -> S] : k \in 0..n}

\* The strategies proposed: stop_count is 1 or more (Strategy.stop_count,
\* ge=1), the tire sequence is not empty.
Compounds == {"soft", "hard"}
Laps == 1..MaxLap
Strategies ==
    {Strategy(c, p, q) : c \in 1..MaxStops, p \in SeqsUpTo(Laps, MaxStops),
                         q \in SeqsUpTo(Compounds, MaxStops + 1) \ {<<>>}}
\* The candidates of a batch: one-stop strategies.
Candidates ==
    {s \in Strategies : s.stop_count = 1 /\ Len(s.pit_laps) <= 1
                        /\ Len(s.tire_sequence) = 2}
\* RaceInfo: total_laps gt=0, current_lap ge=0.
RaceInfos == {RaceInfo(c, n) : c \in 0..MaxLap, n \in 1..MaxLap}

NotCalled == strategy = NoStrategy /\ strategies = <<>>

\* One call of validate_strategy, on any of the strategies.
ValidateStrategy ==
    /\ NotCalled
    /\ \E s \in Strategies :
           /\ strategy' = s
           /\ verdict' = validate_strategy(s, race_info)
    /\ UNCHANGED <<race_info, strategies, valid_strategies, beside_validator>>

\* One call of validate_strategies, on any list of candidates.
ValidateStrategies ==
    /\ NotCalled
    /\ \E list \in SeqsUpTo(Candidates, MaxCandidates) :
           /\ strategies' = list
           /\ valid_strategies' = validate_strategies(list, race_info)
    /\ UNCHANGED <<race_info, strategy, verdict, beside_validator>>

InitValidator ==
    /\ ServiceInit
    /\ BufferInit(BufferMaxSize)
    /\ \E info \in RaceInfos : ValidatorInit(info)
    /\ ClientInit(GeminiMaxRetries, FALSE)
    /\ ParserInit
    /\ SynthesizerInit
    /\ BrainstormInit
    /\ ApiInit(MaxRecent, FALSE)
    /\ EnricherInit
    /\ AdapterInit
    /\ SimulatorInit
    /\ GeneratorInit

NextValidator ==
    \/ ValidateStrategy
    \/ ValidateStrategies

SpecValidator == InitValidator /\ [][NextValidator]_vars

\* ----------------------------------------------------------- GeminiClient
\* What the service does with one request: a text that parses to a result,
\* a text that does not parse, or an exception with its message.
Parsed(result) == [kind |-> "parsed", value |-> result]
Unparsable == [kind |-> "json", value |-> "Expecting value"]
Raised(message) == [kind |-> "api", value |-> message]
ErrorMessages == {"timeout", "504", "connection"}
Responses ==
    {Parsed(r) : r \in Results} \cup {Unparsable}
        \cup {Raised(m) : m \in ErrorMessages}

\* "timeout" in str(e).lower() or "504" in str(e)
TimeoutLike(message) == message \in {"timeout", "504"}

\* _add_json_emphasis: the paragraph is appended unless the prompt holds it.
add_json_emphasisMut(p) == Prompt(p.text, p.length, p.emphasis + 1)
add_json_emphasis(p) ==
    IF p.emphasis = 0 THEN Prompt(p.text, p.length, p.emphasis + 1) ELSE p

\* The sleep before the next attempt, none after the last one.
wait_time(response, k) ==
    IF response.kind = "json" THEN ParseRetryWait
    ELSE IF TimeoutLike(response.value) THEN TimeoutWait * k
    ELSE ErrorWait * k

\* The local last_error after a failed attempt.
ErrorOfMut(response) == NoError
ErrorOf(response) ==
    IF response.kind = "json" THEN Error("JSON parsing error", response.value)
    ELSE Error("API error", response.value)

\* One attempt as the call saw it: the prompt sent, the response and the
\* sleep that followed.
AttemptLog(p, response, wait) ==
    [prompt |-> p, response |-> response, wait |-> wait]

\* More attempts may follow attempt k.
MoreAttemptsMut(k) == k <= max_retries
MoreAttempts(k) == k < max_retries

\* generate_json up to its first request: the cached result in demo mode,
\* the error at once when the loop has no iteration, else the loop starts.
GenerateJson(p, temperature) ==
    /\ call_result.status # "running"
    /\ call' = Call(p, temperature)
    /\ attempts' = <<>>
    /\ IF demo_mode /\ demo_cache[get_cache_key(p, temperature)] # NoResult
       THEN /\ call_result' = Outcome("returned",
                                  demo_cache[get_cache_key(p, temperature)],
                                  0, NoError)
            /\ prompt' = NoPrompt
            /\ attempt' = 0
            /\ last_error' = NoError
       ELSE /\ prompt' = p
            /\ last_error' = NoError
            /\ IF max_retries >= 1
               THEN attempt' = 1 /\ call_result' = Running
               ELSE /\ attempt' = 0
                    /\ call_result' = Outcome("raised", NoResult, max_retries,
                                          NoError)
    /\ UNCHANGED <<max_retries, demo_mode, demo_cache, beside_client>>

\* One iteration of the loop whose response parses: cache and return.
AttemptParsed(result) ==
    /\ call_result.status = "running"
    /\ attempts' = Append(attempts, AttemptLog(prompt, Parsed(result), 0))
    /\ demo_cache' =
           IF demo_mode
           THEN [demo_cache EXCEPT
                    ![get_cache_key(prompt, call.temperature)] = result]
           ELSE demo_cache
    /\ call_result' = Outcome("returned", result, attempt, NoError)
    /\ UNCHANGED <<max_retries, demo_mode, call, prompt, attempt, last_error,
                   beside_client>>

\* One iteration of the loop that fails: last_error, then the stricter
\* prompt and the sleep if an attempt is left, else the final error.
AttemptFailed(response) ==
    /\ call_result.status = "running"
    /\ last_error' = ErrorOf(response)
    /\ IF MoreAttempts(attempt)
       THEN /\ prompt' = IF response.kind = "json"
                         THEN add_json_emphasis(prompt) ELSE prompt
            /\ attempts' = Append(attempts,
                   AttemptLog(prompt, response, wait_time(response, attempt)))
            /\ attempt' = attempt + 1
            /\ call_result' = call_result
       ELSE /\ attempts' = Append(attempts, AttemptLog(prompt, response, 0))
            /\ call_result' = Outcome("raised", NoResult, max_retries,
                                  ErrorOf(response))
            /\ UNCHANGED <<prompt, attempt>>
    /\ UNCHANGED <<max_retries, demo_mode, demo_cache, call, beside_client>>

Attempt ==
    \/ \E r \in Results : AttemptParsed(r)
    \/ \E response \in Responses \ {Parsed(r) : r \in Results} :
           AttemptFailed(response)

InitClient ==
    /\ ServiceInit
    /\ BufferInit(BufferMaxSize)
    /\ ValidatorInit(RaceInfo(0, 1))
    /\ \E retries \in 0..MaxRetries, demo \in BOOLEAN :
           ClientInit(retries, demo)
    /\ ParserInit
    /\ SynthesizerInit
    /\ BrainstormInit
    /\ ApiInit(MaxRecent, FALSE)
    /\ EnricherInit
    /\ AdapterInit
    /\ SimulatorInit
    /\ GeneratorInit

NextClient ==
    \/ \E p \in PromptInputs, temperature \in Temperatures :
           GenerateJson(p, temperature)
    \/ Attempt

SpecClient == InitClient /\ [][NextClient]_vars

\* Each request ends (request_options timeout) and each sleep ends, so a
\* running call takes its next iteration.
SpecClientFair == SpecClient /\ WF_vars(Attempt)

\* -------------------------------------------------------------- _parse_json
\* A text is a sequence of tokens: the triple backtick, a language tag, a
\* line break, and the tokens of a JSON document.
Backticks == "(3 backticks)"
LineBreak == "\n"
DocumentTokens == {"{", "}", "[", "]", "1"}
Tags == {"json", "JSON"}

\* str.strip(): no white space at either end.
RECURSIVE lstrip(_)
lstrip(s) ==
    IF s # <<>> /\ Head(s) = LineBreak THEN lstrip(Tail(s)) ELSE s
strip(s) == Reverse(lstrip(Reverse(lstrip(s))))

\* text.startswith of the backticks and json: the tag is compared as written.
StartsWithJsonFence(s) == Len(s) >= 2 /\ s[1] = Backticks /\ s[2] = "json"
StartsWithFence(s) == Len(s) >= 1 /\ s[1] = Backticks
EndsWithFence(s) == Len(s) >= 1 /\ s[Len(s)] = Backticks

\* json.loads: white space between tokens is skipped; the documents are {},
\* [], [1] and 1.
loads(s) ==
    LET tokens == SelectSeq(s, LAMBDA x : x # LineBreak)
    IN  IF tokens = <<"{", "}">> THEN Loaded([type |-> "object", items |-> <<>>])
        ELSE IF tokens = <<"[", "]">>
            THEN Loaded([type |-> "array", items |-> <<>>])
        ELSE IF tokens = <<"[", "1", "]">>
            THEN Loaded([type |-> "array", items |-> <<1>>])
        ELSE IF tokens = <<"1">> THEN Loaded([type |-> "number", items |-> <<1>>])
        ELSE DecodeError

parse_json(s) ==
    LET stripped == strip(s)
        no_json == IF StartsWithJsonFence(stripped)
                   THEN SubSeq(stripped, 3, Len(stripped)) ELSE stripped
        no_open == IF StartsWithFence(no_json) THEN Tail(no_json) ELSE no_json
        no_close == IF EndsWithFence(no_open)
                    THEN SubSeq(no_open, 1, Len(no_open) - 1) ELSE no_open
    IN  loads(strip(no_close))

\* The response texts that are JSON documents.
Documents ==
    {s \in SeqsUpTo(DocumentTokens \cup {LineBreak}, MaxTokens) : loads(s).ok}
\* A text between an opening fence, with or without a tag and a line break,
\* and a closing fence.
Fenced(s, tag, before, after) ==
    <<Backticks>> \o tag \o before \o s \o after \o <<Backticks>>
Breaks == {<<>>, <<LineBreak>>}

\* _parse_json of a response text that is a JSON document.
ParseBare ==
    /\ response_text = <<>>
    /\ \E s \in Documents :
           /\ response_text' = s
           /\ parsed_bare' = parse_json(s)
    /\ UNCHANGED <<fenced_text, parsed_fenced, beside_parser>>

\* _parse_json of the same text inside a code fence.
ParseFenced ==
    /\ response_text # <<>>
    /\ fenced_text = <<>>
    /\ \E tag \in {<<>>} \cup {<<x>> : x \in Tags}, before, after \in Breaks :
           /\ fenced_text' = Fenced(response_text, tag, before, after)
           /\ parsed_fenced' = parse_json(fenced_text')
    /\ UNCHANGED <<response_text, parsed_bare, beside_parser>>

InitParser ==
    /\ ServiceInit
    /\ BufferInit(BufferMaxSize)
    /\ ValidatorInit(RaceInfo(0, 1))
    /\ ClientInit(GeminiMaxRetries, FALSE)
    /\ ParserInit
    /\ SynthesizerInit
    /\ BrainstormInit
    /\ ApiInit(MaxRecent, FALSE)
    /\ EnricherInit
    /\ AdapterInit
    /\ SimulatorInit
    /\ GeneratorInit

NextParser ==
    \/ ParseBare
    \/ ParseFenced

SpecParser == InitParser /\ [][NextParser]_vars

\* ------------------------------------------------- generate_control_command
\* The records of a lap: rates at and around the thresholds of the rule
\* table, with and without a pit window.
Rates == {19, 20, 40, 41, 70, 71}
CliffRisks == {70, 71}
PaceTrends == {"improving", "stable", "declining"}
PitWindows == {<<>>, <<2, MaxLap - 1>>}
Records ==
    {[lap |-> NoValue, tire_degradation_rate |-> d, pace_trend |-> p,
      tire_cliff_risk |-> c, optimal_pit_window |-> w] :
        d \in Rates, p \in PaceTrends, c \in CliffRisks, w \in PitWindows}
\* The top strategy of a generation: none, or a one-stop strategy.
TopStrategies == {NoStrategy, Strategy(1, <<MaxLap>>, <<"soft", "hard">>)}

\* One call of generate_control_command; the call before is remembered, and
\* two consecutive calls are followed.
Synthesize ==
    /\ previous_synthesis = NoSynthesis
    /\ \E lap \in Laps, s \in TopStrategies, e \in Records :
        /\ synth_lap' = lap
        /\ synth_strategy' = s
        /\ synth_record' = e
        /\ control_command' = generate_control_command(lap, s, e)
        /\ previous_synthesis' =
               Synthesis(synth_lap, synth_record, control_command)
        /\ UNCHANGED beside_synthesizer

InitSynthesizer ==
    /\ ServiceInit
    /\ BufferInit(BufferMaxSize)
    /\ ValidatorInit(RaceInfo(0, 1))
    /\ ClientInit(GeminiMaxRetries, FALSE)
    /\ ParserInit
    /\ SynthesizerInit
    /\ BrainstormInit
    /\ ApiInit(MaxRecent, FALSE)
    /\ EnricherInit
    /\ AdapterInit
    /\ SimulatorInit
    /\ GeneratorInit

NextSynthesizer == Synthesize

SpecSynthesizer == InitSynthesizer /\ [][NextSynthesizer]_vars

\* ------------------------------------------------------ brainstorm_strategies
\* The enriched_telemetry of a request: none (or an empty list), or a record.
RequestTelemetry == {<<>>, <<WornTyres>>}
\* fetch_latest: the records of the enrichment service, possibly none; an
\* HTTP error status; no connection.
FetchOutcomes ==
    {Fetched("records", <<>>), Fetched("records", <<FreshTyres>>),
     Fetched("status error", <<>>), Fetched("request error", <<>>)}
BadRequest == 400
InternalServerError == 500
Ok == 200

\* The status of the response once the telemetry is chosen.
GenerateStatus(outcome) ==
    IF outcome = "fail" THEN InternalServerError ELSE Ok

\* POST /api/strategy/brainstorm. The buffer is read before the generator is
\* awaited and is not written.
Brainstorm ==
    /\ nevents < MaxEvents
    /\ nevents' = nevents + 1
    /\ \E request \in RequestTelemetry, f \in FetchOutcomes,
          outcome \in GenOutcomes :
        LET data == get_latest(telemetry_buffer, LatestLimit)
        IN  /\ brainstorm_request' = request
            /\ IF request # <<>>
               THEN /\ buffer_data' = <<>>
                    /\ fetched' = NotFetched
                    /\ enriched_data' = request
                    /\ brainstorm_status' = GenerateStatus(outcome)
               ELSE IF data # <<>>
               THEN /\ buffer_data' = data
                    /\ fetched' = NotFetched
                    /\ enriched_data' = data
                    /\ brainstorm_status' = GenerateStatus(outcome)
               ELSE /\ buffer_data' = data
                    /\ fetched' = f
                    /\ enriched_data' = f.records
                    /\ brainstorm_status' =
                           IF f.kind # "records" THEN InternalServerError
                           ELSE IF f.records = <<>> THEN BadRequest
                           ELSE GenerateStatus(outcome)
    /\ UNCHANGED <<globals, session, handler, webhook, own_buffer, validator,
                   client, parser, synthesizer, enrichment_api,
                   enricher, adapter, simulator, generator>>

InitBrainstorm ==
    /\ ServiceInit
    /\ BufferInit(BufferMaxSize)
    /\ ValidatorInit(RaceInfo(0, 1))
    /\ ClientInit(GeminiMaxRetries, FALSE)
    /\ ParserInit
    /\ SynthesizerInit
    /\ BrainstormInit
    /\ ApiInit(MaxRecent, FALSE)
    /\ EnricherInit
    /\ AdapterInit
    /\ SimulatorInit
    /\ GeneratorInit

\* Brainstorm requests and webhook pushes, which fill the buffer.
NextBrainstorm ==
    \/ Brainstorm
    \/ WebhookNext

SpecBrainstorm == InitBrainstorm /\ [][NextBrainstorm]_vars

\* ------------------------------------------------------------- hpcsim.api
\* Lap-level telemetry of the car: a lap number, or a payload that the
\* enrichment rejects.
Rejected == 0
Payloads == {Rejected} \cup 1..2
\* An EnrichedRecord posted from outside.
PostedRecords == {Enriched(MaxLap, 50, "stable", 50, 0, 0)}
\* Arguments of GET /enriched.
ListLimits == {0 - 1, 0, 1, 2, DefaultLimit, ListLimit + 1}

\* Enricher.enrich_lap_data: the enriched record of the lap and its race
\* context.
enrich_lap_data(lap) ==
    [enriched_telemetry |-> Enriched(lap, 10 * lap, "stable", 10 * lap,
                                     lap + 1, lap + 3),
     race_context |-> RaceContextOf(lap)]

\* _recent.append(rec), then the oldest records beyond _MAX_RECENT are deleted.
store_recent(store, capacity, rec) ==
    LET all == Append(store, rec)
    IN  IF Len(all) > capacity
        THEN SubSeq(all, Len(all) - capacity + 1, Len(all))
        ELSE all

\* The forward to the callback: its exception is passed over.
ingest_responseMut(result, forward) ==
    IF forward = "failed" THEN ApiCall("ingest", NoValue, forward,
                                       InternalServerError, <<>>)
    ELSE ApiCall("ingest", NoValue, forward, Ok, <<result>>)
ingest_response(result, forward) ==
    ApiCall("ingest", NoValue, forward, Ok, <<result>>)

\* max(1, min(200, limit)), then _recent[-limit:]
clamp(n) == IF Min(ListLimit, n) < 1 THEN 1 ELSE Min(ListLimit, n)
list_enriched(store, n) ==
    LET k == clamp(n)
    IN  IF k >= Len(store) THEN store
        ELSE SubSeq(store, Len(store) - k + 1, Len(store))

ApiCalled ==
    /\ api_calls < MaxAdds
    /\ api_calls' = api_calls + 1

\* POST /ingest/telemetry
IngestTelemetry ==
    /\ ApiCalled
    /\ \E lap \in Payloads, delivery \in {"delivered", "failed"} :
        LET result == enrich_lap_data(lap)
            forward == IF callback_url THEN delivery ELSE "none"
        IN  IF lap = Rejected
            THEN /\ api_call' = ApiCall("ingest", lap, "none", BadRequest, <<>>)
                 /\ UNCHANGED recent
            ELSE /\ recent' = store_recent(recent, max_recent,
                                           result.enriched_telemetry)
                 /\ api_call' = [ingest_response(result, forward)
                                     EXCEPT !.argument = lap]
    /\ UNCHANGED <<max_recent, callback_url, beside_enrichment_api>>

\* POST /enriched
PostEnriched ==
    /\ ApiCalled
    /\ \E rec \in PostedRecords :
        /\ recent' = store_recent(recent, max_recent, rec)
        /\ api_call' = ApiCall("post", rec.lap, "none", Ok, <<rec>>)
    /\ UNCHANGED <<max_recent, callback_url, beside_enrichment_api>>

\* GET /enriched
ListEnriched ==
    /\ ApiCalled
    /\ \E n \in ListLimits :
        api_call' = ApiCall("list", n, "none", Ok, list_enriched(recent, n))
    /\ UNCHANGED <<recent, max_recent, callback_url, beside_enrichment_api>>

\* POST /reset
ResetEnricher ==
    /\ ApiCalled
    /\ recent' = <<>>
    /\ api_call' = ApiCall("reset", NoValue, "none", Ok, <<>>)
    /\ UNCHANGED <<max_recent, callback_url, beside_enrichment_api>>

\* The store has _MAX_RECENT places, or few enough for the requests followed
\* to fill them; the callback URL is set or not.
InitApi ==
    /\ ServiceInit
    /\ BufferInit(BufferMaxSize)
    /\ ValidatorInit(RaceInfo(0, 1))
    /\ ClientInit(GeminiMaxRetries, FALSE)
    /\ ParserInit
    /\ SynthesizerInit
    /\ BrainstormInit
    /\ \E capacity \in {MaxCapacity, MaxRecent}, configured \in BOOLEAN :
           ApiInit(capacity, configured)
    /\ EnricherInit
    /\ AdapterInit
    /\ SimulatorInit
    /\ GeneratorInit

NextApi ==
    \/ IngestTelemetry
    \/ PostEnriched
    \/ ListEnriched
    \/ ResetEnricher

SpecApi == InitApi /\ [][NextApi]_vars

\* ------------------------------------------------------------------ enricher
\* hpcsim/enrichment.py. Throttle, brake, fuel level, ers and rain probability
\* are in thousandths, speeds in km/h, temperatures in degrees; the scores of
\* an emitted record are in thousandths, as round(x, 3) leaves them.
NoReading == 0 - 1000      \* a key the sample does not carry (None)
Absent == "absent"         \* a text key the sample does not carry
IsNumber(reading) == reading # NoReading
\* round(x / unit), halves to the even neighbour, x >= 0
Round(x, unit) ==
    LET q == x \div unit
        r == x % unit
    IN IF 2 * r > unit \/ (2 * r = unit /\ q % 2 = 1) THEN q + 1 ELSE q
Bounded(x, most) == IF x < 0 THEN 0 ELSE IF x > most THEN most ELSE x
RECURSIVE SumOver(_, _)
SumOver(f, keys) ==
    IF keys = {} THEN 0
    ELSE LET k == CHOOSE k \in keys : TRUE
         IN f[k] + SumOver(f, keys \ {k})
\* _TIRES_BASE_WEAR.get(tire_compound, medium), in thousandths per lap
BaseWear(tire_compound) ==
    CASE tire_compound = "soft" -> 12
      [] tire_compound = "hard" -> 6
      [] tire_compound = "inter" -> 15
      [] tire_compound = "wet" -> 20
      [] OTHER -> 8
\* _update_lap_stats: the lap's entry is written, nothing is ever removed
update_lap_stats(state, lap, speed, throttle) ==
    IF lap <= 0 THEN state
    ELSE LET held == IF lap \in DOMAIN state.lap_throttle_avg
                     THEN state.lap_throttle_avg[lap] ELSE throttle
             laps == DOMAIN state.lap_speeds \cup {lap}
         IN [state EXCEPT
               !.lap_speeds = [l \in laps |->
                   IF l = lap THEN speed ELSE state.lap_speeds[l]],
               !.lap_throttle_avg = [l \in laps |->
                   IF l = lap THEN Round(8 * held + 2 * throttle, 10)
                   ELSE state.lap_throttle_avg[l]],
               !.last_lap = lap]
\* _compute_aero_efficiency, computed in units of 1/330000
compute_aero_efficiency(speed, throttle, brake) ==
    LET speed_n == Bounded(speed, FullSpeed)
        base == 500 * speed_n + 66 * throttle - 132 * brake
    IN Round(Bounded(base, 1000 * FullSpeed), FullSpeed)
FullWear == 1000000000     \* cumulative wear 1.0, in units of 10^-9
\* what _compute_tire_degradation returns, given the wear so far
worn_toMut(cumulative_wear, wear_this_lap) == Min(FullWear, wear_this_lap)
worn_to(cumulative_wear, wear_this_lap) ==
    Min(FullWear, cumulative_wear + wear_this_lap)
\* _compute_tire_degradation: the new cumulative wear; the stress of the lap
\* in units of 10^-4, the temperature factor in hundredths
compute_tire_degradation(state, speed, throttle, tire_compound, track_temp) ==
    LET temp_factor == IF ~IsNumber(track_temp) THEN 100
                       ELSE IF track_temp > HotTrack THEN 125
                       ELSE IF track_temp < CoolTrack THEN 90 ELSE 100
        stress == 5000 + 5 * throttle
                  + 20 * (IF speed > StressSpeed THEN speed - StressSpeed
                          ELSE 0)
    IN worn_to(state.cumulative_wear,
               BaseWear(tire_compound) * stress * temp_factor)
\* _compute_ers_charge, computed in units of 10^-5
ers_levelMut(x) == x
ers_level(x) == Bounded(x, 100000)
compute_ers_charge(ers, throttle, brake) ==
    Round(ers_level(IF IsNumber(ers)
                    THEN 100 * ers + 10 * brake - 5 * throttle
                    ELSE 60000 + 5 * brake - 3 * throttle), 100)
\* _compute_fuel_optimization, computed in units of 10^-4
compute_fuel_optimization(fuel_level, throttle) ==
    LET ideal_throttle == 5000 + 4 * Bounded(fuel_level, 1000)
        gap == 10 * throttle - ideal_throttle
        penalty == IF gap < 0 THEN 0 - gap ELSE gap
    IN Round(Bounded(10000 - penalty, 10000), 10)
\* _compute_driver_consistency: the variance of the speeds of the last five
\* laps held, as n * sum(s^2) - sum(s)^2 = n^2 * var
compute_driver_consistency(state) ==
    LET held == DOMAIN state.lap_speeds
        laps == {l \in held :
                   Cardinality({m \in held : m > l}) < ConsistencyLaps}
        n == Cardinality(laps)
        squares == [l \in laps |-> state.lap_speeds[l] * state.lap_speeds[l]]
        total == SumOver(state.lap_speeds, laps)
        spread == n * SumOver(squares, laps) - total * total
        full == SpeedSpread * SpeedSpread * n * n
    IN IF laps = {} THEN 500
       ELSE Round(1000 * (full - Min(full, spread)), full)
\* _compute_weather_impact, the score in units of 10^-4
compute_weather_impact(rain_prob, track_temp) ==
    LET rain == IF IsNumber(rain_prob) THEN 7 * rain_prob ELSE 0
        cold == IF IsNumber(track_temp) /\ track_temp < ColdTyres
                THEN 2000 ELSE 0
        hot == IF IsNumber(track_temp) /\ track_temp > Overheating
               THEN 2000 ELSE 0
        score == rain + cold + hot
    IN IF score < 3000 THEN "low" ELSE IF score < 6000 THEN "medium" ELSE "high"
\* the state after the helpers of one call have run, in the order of the code
Enriching(state, telemetry) ==
    LET after == update_lap_stats(state, telemetry.lap, telemetry.speed,
                                  telemetry.throttle)
    IN [after EXCEPT !.cumulative_wear =
            compute_tire_degradation(after, telemetry.speed,
                telemetry.throttle, telemetry.tire_compound,
                telemetry.track_temp)]
\* the record both enrich and enrich_with_context return
EnrichedRecord(after, telemetry) ==
    Metrics(telemetry.lap,
            compute_aero_efficiency(telemetry.speed, telemetry.throttle,
                                    telemetry.brake),
            Round(after.cumulative_wear, 1000000),
            compute_ers_charge(telemetry.ers, telemetry.throttle,
                               telemetry.brake),
            compute_fuel_optimization(telemetry.fuel_level,
                                      telemetry.throttle),
            compute_driver_consistency(after),
            compute_weather_impact(telemetry.rain_probability,
                                   telemetry.track_temp))
\* _build_race_context without the mock competitors
build_race_context(lap, total_laps, track_name, track_temp, rainfall, driver_name, current_position, tire_compound, tire_life_laps, fuel_level) ==
    [track_name |-> track_name, total_laps |-> total_laps,
     current_lap |-> lap,
     weather_condition |-> IF rainfall THEN "Wet" ELSE "Dry",
     track_temp_celsius |-> IF IsNumber(track_temp) THEN track_temp ELSE 25,
     driver_name |-> driver_name, current_position |-> current_position,
     current_tire_compound |->
         IF tire_compound \in {"soft", "medium", "hard", "wet"}
         THEN tire_compound
         ELSE IF tire_compound \in {"inter", "intermediate"}
         THEN "intermediate" ELSE "medium",
     tire_age_laps |-> tire_life_laps,
     fuel_remaining_percent |-> fuel_level \div 10]
\* a raw sample: the keys enrich reads, and the context keys of
\* enrich_with_context (Absent / NoReading when the sample lacks them)
Sample(lap, speed, throttle, brake, tire_compound, fuel_level, ers, track_temp, rain_probability) ==
    [lap |-> lap, speed |-> speed, throttle |-> throttle, brake |-> brake,
     tire_compound |-> tire_compound, fuel_level |-> fuel_level, ers |-> ers,
     track_temp |-> track_temp, rain_probability |-> rain_probability]
\* samples with throttle, brake and fuel level in [0,1] and speed >= 0: the
\* sample of test_basic_ranges, a standing car, a car beyond every scale in
\* the wet, a flat-out lap in the cold, and a braking lap on an unknown tyre
Samples ==
    {Sample(1, 250, 800, 100, "medium", 600, 500, 35, 100),
     Sample(0, 0, 0, 0, "soft", 0, NoReading, NoReading, NoReading),
     Sample(2, 4950, 1000, 1000, "wet", 1000, 1500, 50, 1000),
     Sample(2, 330, 1000, 0, "hard", 1000, 0 - 200, 10, 500),
     Sample(3, 99, 0, 1000, "ultra", 500, 0, 43, 0)}
\* the laps of test_stateful_wear_increases, and the same lap a little faster
SteadySamples ==
    {Sample(1, 260, 900, 50, "soft", 700, NoReading, NoReading, NoReading),
     Sample(1, 280, 900, 50, "soft", 700, NoReading, NoReading, NoReading)}
\* the context keys a sample may carry
Contexts ==
    {[track_name |-> Absent, total_laps |-> NoReading,
      driver_name |-> Absent, current_position |-> NoReading,
      tire_life_laps |-> 0, rainfall |-> FALSE],
     [track_name |-> "Monza", total_laps |-> 51,
      driver_name |-> "Alonso", current_position |-> 5,
      tire_life_laps |-> 8, rainfall |-> TRUE]}
EnricherCalled(record) ==
    /\ emitted_before' = emitted
    /\ emitted' = record
    /\ enrich_calls' = enrich_calls + 1
    /\ UNCHANGED beside_enricher
\* Enricher.enrich
Enrich(telemetry, most) ==
    /\ enrich_calls < most
    /\ enricher_state' = Enriching(enricher_state, telemetry)
    /\ EnricherCalled(EnrichedRecord(enricher_state', telemetry))
    /\ UNCHANGED race_context_out
\* Enricher.enrich_with_context
EnrichWithContext(telemetry, context, most) ==
    /\ enrich_calls < most
    /\ LET track_name == IF context.track_name = Absent
                         THEN enricher_state.track_name
                         ELSE context.track_name
           total_laps == IF context.total_laps = NoReading
                         THEN enricher_state.total_laps
                         ELSE context.total_laps
           driver_name == IF context.driver_name = Absent
                          THEN enricher_state.driver_name
                          ELSE context.driver_name
           current_position == IF context.current_position = NoReading
                               THEN enricher_state.current_position
                               ELSE context.current_position
           history == enricher_state.tire_compound_history
           noted == [enricher_state EXCEPT
                       !.track_name = track_name,
                       !.total_laps = total_laps,
                       !.driver_name = driver_name,
                       !.current_position = current_position,
                       !.tire_compound_history =
                           IF history = <<>>
                              \/ history[Len(history)] # telemetry.tire_compound
                           THEN Append(history, telemetry.tire_compound)
                           ELSE history]
       IN /\ enricher_state' = Enriching(noted, telemetry)
          /\ race_context_out' =
               build_race_context(telemetry.lap, total_laps, track_name,
                   telemetry.track_temp, context.rainfall, driver_name,
                   current_position, telemetry.tire_compound,
                   context.tire_life_laps, telemetry.fuel_level)
    /\ EnricherCalled(EnrichedRecord(enricher_state', telemetry))
\* a driver feeding one sample per lap, lap after lap
EnrichNextLap(telemetry) ==
    Enrich([telemetry EXCEPT !.lap = enrich_calls + 1], MaxSteadyLaps)

InitEnricher ==
    /\ ServiceInit
    /\ BufferInit(BufferMaxSize)
    /\ ValidatorInit(RaceInfo(0, 1))
    /\ ClientInit(GeminiMaxRetries, FALSE)
    /\ ParserInit
    /\ SynthesizerInit
    /\ BrainstormInit
    /\ ApiInit(MaxRecent, FALSE)
    /\ EnricherInit
    /\ AdapterInit
    /\ SimulatorInit
    /\ GeneratorInit
NextEnricher ==
    \/ \E telemetry \in Samples : Enrich(telemetry, MaxEnrichCalls)
    \/ \E telemetry \in Samples, context \in Contexts :
           EnrichWithContext(telemetry, context, MaxEnrichCalls)
SpecEnricher == InitEnricher /\ [][NextEnricher]_vars
NextSteady == \E telemetry \in SteadySamples : EnrichNextLap(telemetry)
SpecSteady == InitEnricher /\ [][NextSteady]_vars

\* ------------------------------------------------------------------ adapter
\* hpcsim/adapter.py. A conversion either gives a value or raises.
Converted(value) == [error |-> "none", value |-> value]
Raises(error) == [error |-> error, value |-> Missing]
\* Python's int(x): a float is cut towards zero, a text must read as an
\* integer, a float infinity has no integer
to_int(x) ==
    CASE x.kind = "number" ->
             Converted(Number(IF x.n >= 0 THEN (x.n \div 1000) * 1000
                              ELSE 0 - (((0 - x.n) \div 1000) * 1000)))
      [] x.kind = "text" ->
             IF x.n # NoParse /\ x.n % 1000 = 0 THEN Converted(Number(x.n))
             ELSE Raises("ValueError")
      [] x.kind = "infinity" -> Raises("OverflowError")
      [] x.kind = "huge" -> Converted(Huge)
      [] OTHER -> Raises("TypeError")
\* Python's float(x): an integer beyond the floats has no float
to_float(x) ==
    CASE x.kind = "number" -> Converted(x)
      [] x.kind = "text" ->
             IF x.n # NoParse THEN Converted(Number(x.n))
             ELSE Raises("ValueError")
      [] x.kind = "infinity" -> Converted(Infinity)
      [] x.kind = "huge" -> Raises("OverflowError")
      [] OTHER -> Raises("TypeError")
\* str.lower()
lower(text) ==
    CASE text = "Soft" -> "soft"
      [] text = "HARD" -> "hard"
      [] OTHER -> text
\* bool(x)
truthy(x) ==
    CASE x.kind \in {"absent", "null"} -> FALSE
      [] x.kind = "number" -> x.n # 0
      [] x.kind = "text" -> x.text # ""
      [] OTHER -> TRUE
\* str(x)
str(x) ==
    CASE x.kind = "text" -> x
      [] x.kind = "number" -> Text(ToString(x.n), x.n)
      [] OTHER -> Text(x.kind, NoParse)
\* except (TypeError, ValueError): the two errors the function catches
catches(error) == error \in {"TypeError", "ValueError"}
\* pick: the value of the first alias that is in the payload and not None
RECURSIVE FirstOf(_, _, _, _)
FirstOf(payload, names, i, default) ==
    IF i > Len(names) THEN default
    ELSE IF payload[names[i]].kind \notin {"absent", "null"}
    THEN payload[names[i]]
    ELSE FirstOf(payload, names, i + 1, default)
pick(payload, key, default) == FirstOf(payload, Aliases(key), 1, default)
\* clamp01: the value inside [0,1], the default when float(x) is caught
clamp01(x, default) ==
    LET v == to_float(x)
    IN IF v.error = "none"
       THEN Converted(IF v.value = Infinity THEN Number(1000)
                      ELSE Number(Bounded(v.value.n, 1000)))
       ELSE IF catches(v.error) THEN Converted(default) ELSE v
\* int(x) or float(x) under try / except (TypeError, ValueError)
guarded(conversion, default) ==
    IF conversion.error # "none" /\ catches(conversion.error)
    THEN Converted(default) ELSE conversion
\* the same for a key the output carries only when it has a value
optional(x, conversion) ==
    IF x = Null THEN Converted(Missing) ELSE guarded(conversion, Missing)
normalize_telemetry(payload) ==
    LET lap == guarded(to_int(pick(payload, "lap", Number(0))), Number(0))
        speed == guarded(to_float(pick(payload, "speed", Number(0))),
                         Number(0))
        throttle == clamp01(pick(payload, "throttle", Number(0)), Number(0))
        brake == clamp01(pick(payload, "brake", Number(0)), Number(0))
        compound == pick(payload, "tire_compound", Text("medium", NoParse))
        tire_compound == IF compound.kind = "text"
                         THEN Text(lower(compound.text), compound.n)
                         ELSE Text("medium", NoParse)
        fuel_level == clamp01(pick(payload, "fuel_level", Number(500)),
                              Number(500))
        ers == LET x == pick(payload, "ers", Null)
               IN IF x = Null THEN Converted(Missing) ELSE clamp01(x, Missing)
        track_temp == LET x == pick(payload, "track_temp", Null)
                      IN optional(x, to_float(x))
        \* except Exception: whatever clamp01 raises is caught here
        rain_prob == LET x == pick(payload, "rain_probability", Null)
                         v == clamp01(x, Missing)
                     IN IF x = Null \/ v.error # "none" THEN Missing
                        ELSE v.value
        total_laps == LET x == pick(payload, "total_laps", Null)
                      IN optional(x, to_int(x))
        track_name == LET x == pick(payload, "track_name", Null)
                      IN IF truthy(x) THEN str(x) ELSE Missing
        driver_name == LET x == pick(payload, "driver_name", Null)
                       IN IF truthy(x) THEN str(x) ELSE Missing
        current_position == LET x == pick(payload, "current_position", Null)
                            IN optional(x, to_int(x))
        tire_life_laps == LET x == pick(payload, "tire_life_laps", Null)
                          IN optional(x, to_int(x))
        rainfall == LET x == pick(payload, "rainfall", Null)
                    IN IF x = Null THEN Missing
                       ELSE Text(IF truthy(x) THEN "True" ELSE "False", NoParse)
        steps == <<lap, speed, throttle, brake, fuel_level, ers, track_temp,
                   total_laps, current_position, tire_life_laps>>
        raising == {i \in DOMAIN steps : steps[i].error # "none"}
    IN IF raising # {}
       THEN Raising(steps[CHOOSE i \in raising :
                              \A j \in raising : i <= j].error)
       ELSE Normalized("none", lap.value, speed.value, throttle.value,
                       brake.value, tire_compound, fuel_level.value,
                       ers.value, track_temp.value, rain_prob,
                       total_laps.value, track_name, driver_name,
                       current_position.value, tire_life_laps.value, rainfall)
\* the payload of test_alias_mapping_and_clamping
TestPayload ==
    [k \in Keys |->
        CASE k = "LapNumber" -> Text("12", 12000)
          [] k = "Speed" -> Text("280.5", 280500)
          [] k = "Throttle" -> Number(1200)
          [] k = "Brakes" -> Number(0 - 100)
          [] k = "TyreCompound" -> Text("Soft", NoParse)
          [] k = "FuelRel" -> Number(1500)
          [] k = "ERS" -> Number(450)
          [] k = "TrackTemp" -> Text("41", 41000)
          [] k = "RainProb" -> Number(300)
          [] OTHER -> Missing]
\* the values a key of a JSON body may carry
Values ==
    {Missing, Null, Number(0 - 100), Number(700), Number(12700),
     Text("12", 12000), Text("0.45", 450), Text("HARD", NoParse),
     Infinity, Huge, Items}
SixKeys ==
    {"lap", "speed", "throttle", "brake", "tire_compound", "fuel_level"}
\* the test's payload or the empty one, with one key of the six and one key
\* of any spelling set to any value
RawPayloads ==
    {[[base EXCEPT ![k1] = v1] EXCEPT ![k2] = v2] :
        base \in {EmptyPayload, TestPayload}, k1 \in Keys, v1 \in Values,
        k2 \in SixKeys, v2 \in Values}
\* normalize_telemetry(payload)
Normalize ==
    /\ normalized = NotNormalized
    /\ normalized' = normalize_telemetry(raw_payload)
    /\ UNCHANGED <<raw_payload, beside_adapter>>

InitAdapter ==
    /\ ServiceInit
    /\ BufferInit(BufferMaxSize)
    /\ ValidatorInit(RaceInfo(0, 1))
    /\ ClientInit(GeminiMaxRetries, FALSE)
    /\ ParserInit
    /\ SynthesizerInit
    /\ BrainstormInit
    /\ ApiInit(MaxRecent, FALSE)
    /\ EnricherInit
    /\ raw_payload \in RawPayloads
    /\ normalized = NotNormalized
    /\ SimulatorInit
    /\ GeneratorInit
NextAdapter == Normalize
SpecAdapter == InitAdapter /\ [][NextAdapter]_vars

\* ---------------------------------------------------------------- simulator
\* scripts/simulate_pi_websocket.py, lap_to_enriched_payload. Rates in
\* thousandths, the performance delta in hundredths.
\* tire_deg_rate = min(1.0, 0.02 * tire_age)
tire_deg_rateMut(tire_age) == 20 * tire_age
tire_deg_rate(tire_age) == Min(1000, 20 * tire_age)
\* tire_cliff_risk = max(0.0, min(1.0, (tire_age - 20) / 10.0))
tire_cliff_risk(tire_age) == Bounded(100 * (tire_age - 20), 1000)
pace_trend(tire_age) ==
    IF tire_age > 25 THEN "declining"
    ELSE IF tire_age < 5 THEN "improving" ELSE "stable"
pit_window(lap_number, tire_age) ==
    IF tire_age > 20 THEN <<lap_number + 1, lap_number + 3>>
    ELSE <<lap_number + 10, lap_number + 15>>
\* a row of the lap CSV
Row(lap_number, total_laps, tire_life_laps, rainfall) ==
    [lap_number |-> lap_number, total_laps |-> total_laps,
     tire_life_laps |-> tire_life_laps, rainfall |-> rainfall]
Rows ==
    {Row(lap_number, 2 * MaxLap, tire_life_laps, rainfall) :
        lap_number \in 1..MaxLap, tire_life_laps \in 0..MaxTireAge,
        rainfall \in BOOLEAN}
\* random.uniform(-1.5, 1.0), rounded to hundredths
PerformanceDeltas == {0 - 150, 0, 100}
lap_to_enriched_payload(row, performance_delta) ==
    [type |-> "telemetry",
     lap_number |-> row.lap_number,
     enriched_telemetry |->
         [lap |-> row.lap_number,
          tire_degradation_rate |-> tire_deg_rate(row.tire_life_laps),
          pace_trend |-> pace_trend(row.tire_life_laps),
          tire_cliff_risk |-> tire_cliff_risk(row.tire_life_laps),
          optimal_pit_window |-> pit_window(row.lap_number, row.tire_life_laps),
          performance_delta |-> performance_delta],
     race_context |->
         [total_laps |-> row.total_laps, current_lap |-> row.lap_number,
          weather_condition |-> IF row.rainfall THEN "Wet" ELSE "Dry",
          tire_age_laps |-> row.tire_life_laps,
          fuel_remaining_percent |->
              Bounded(100 - (100 * row.lap_number) \div row.total_laps, 100)]]
\* the simulator builds the payload of one row
SimulateLap ==
    /\ \E row \in Rows, performance_delta \in PerformanceDeltas :
           simulated_payload' = lap_to_enriched_payload(row, performance_delta)
    /\ UNCHANGED beside_simulator

InitSimulator ==
    /\ ServiceInit
    /\ BufferInit(BufferMaxSize)
    /\ ValidatorInit(RaceInfo(0, 1))
    /\ ClientInit(GeminiMaxRetries, FALSE)
    /\ ParserInit
    /\ SynthesizerInit
    /\ BrainstormInit
    /\ ApiInit(MaxRecent, FALSE)
    /\ EnricherInit
    /\ AdapterInit
    /\ SimulatorInit
    /\ GeneratorInit
NextSimulator == SimulateLap
SpecSimulator == InitSimulator /\ [][NextSimulator]_vars

\* ---------------------------------------------------------------- generator
\* services/strategy_generator.py, generate from the service call on.
\* A candidate of the list: a JSON object (its fields in data), or a value of
\* another shape (a text, a number, null, a list).
RawCandidate(shape, data) == [shape |-> shape, data |-> data]
\* Strategy(**s_data): the fields pass the model's constraints (stop_count
\* ge=1); a value that is not a mapping cannot be unpacked (TypeError)
parses(s_data) == s_data.shape = "object" /\ s_data.data.stop_count >= 1
\* the handler of a failed parse reads s_data.get('strategy_id', '?')
has_get(s_data) == s_data.shape = "object"
\* the loop over strategies_data: the parsed strategies in order, or the
\* exception raised inside the handler
RECURSIVE parse_strategies(_, _)
parse_strategies(strategies_data, parsed) ==
    IF strategies_data = <<>> THEN Returned(parsed)
    ELSE LET s_data == Head(strategies_data)
         IN IF parses(s_data)
            THEN parse_strategies(Tail(strategies_data),
                                  Append(parsed, s_data.data))
            ELSE IF has_get(s_data)
            THEN parse_strategies(Tail(strategies_data), parsed)
            ELSE Failure("AttributeError")
generate(result, info) ==
    CASE result.kind = "raises" -> Failure("service")
      [] result.kind = "no_strategies" ->
             Failure("Response missing 'strategies' field")
      [] result.kind = "strategies_null" -> Failure("TypeError")
      [] OTHER ->
             LET parsed == parse_strategies(result.candidates, <<>>)
             IN IF parsed.raised # "none" THEN parsed
                ELSE Returned(validate_strategies(parsed.strategies, info))
\* candidates: two strategies that pass at lap 0, one of them not at lap 2,
\* one that breaks a rule at any lap, an object that does not parse, a text
\* and a null
RawCandidates ==
    {RawCandidate("object", Strategy(1, <<2>>, <<"soft", "hard">>)),
     RawCandidate("object", Strategy(1, <<3>>, <<"hard", "soft">>)),
     RawCandidate("object", Strategy(1, <<3>>, <<"soft", "soft">>)),
     RawCandidate("object", Strategy(0, <<>>, <<"soft">>)),
     RawCandidate("text", NoStrategy),
     RawCandidate("null", NoStrategy)}
ServiceResults ==
    {ServiceResult("raises", <<>>), ServiceResult("no_strategies", <<>>),
     ServiceResult("strategies_null", <<>>)}
    \cup {ServiceResult("strategies", list) :
              list \in SeqsUpTo(RawCandidates, MaxCandidates)}
GenerateCalls ==
    {GenerateCall(result, RaceInfo(current_lap, MaxLap)) :
        result \in ServiceResults, current_lap \in {0, 2}}
\* StrategyGenerator.generate
Generate ==
    /\ generated = NotGenerated
    /\ generated' = generate(generate_call.result, generate_call.race_info)
    /\ UNCHANGED <<generate_call, beside_generator>>

InitGenerator ==
    /\ ServiceInit
    /\ BufferInit(BufferMaxSize)
    /\ ValidatorInit(RaceInfo(0, 1))
    /\ ClientInit(GeminiMaxRetries, FALSE)
    /\ ParserInit
    /\ SynthesizerInit
    /\ BrainstormInit
    /\ ApiInit(MaxRecent, FALSE)
    /\ EnricherInit
    /\ AdapterInit
    /\ SimulatorInit
    /\ generate_call \in GenerateCalls
    /\ generated = NotGenerated
NextGenerator == Generate
SpecGenerator == InitGenerator /\ [][NextGenerator]_vars

\* ------------------------------------------------------------------ claims
Connected(s) == pc[s] \in {"recv", "generating"}

\* This step, session s took a message from its channel.
Received(s) == Connected(s) /\ nevents' = nevents + 1 /\ handler' = s

HasType(msgs, type) == \E i \in 1..Len(msgs) : msgs[i].type = type

LapOf(s) == cur[s].enriched.lap

\* While the generation of a lap is pending, the acknowledgment sent for it
\* carries the values of the session's own latest update, (5,5) if none.
AckIsOwn(s) ==
    pc[s] = "generating" => sent[s] = <<Ack(LapOf(s), own_last[s])>>

C2_CountIsOwnAdds ==
    \A s \in AllSessions :
        (Connected(s) /\ cur[s].form = "ok")
            => ((gen_calls[s] = 1)
                    <=> (Min(own_adds[s], LatestLimit) >= MinRecords))

\* What the first three well-formed telemetry messages of a session get.
FirstThree(s) ==
    /\ wf_count[s] \in {1, 2}
          => (sent[s] = <<Collecting(LapOf(s))>> /\ gen_calls[s] = 0)
    /\ wf_count[s] = 3 => gen_calls[s] = 1

GenerationFailed(s) ==
    /\ pc[s] = "generating" /\ pc'[s] = "recv"
    /\ sent'[s][Len(sent'[s])].type = "error"
PingHandled(s) == Received(s) /\ cur'[s].kind = "ping"
CollectingReplied(s) ==
    Received(s) /\ cur'[s].form = "ok" /\ pc'[s] = "recv"

C4_Inv == \A s \in AllSessions : AckIsOwn(s)
C4_Step ==
    \A s \in AllSessions :
        (GenerationFailed(s) \/ PingHandled(s) \/ CollectingReplied(s))
            => last_control_command' = last_control_command

\* C4: in a single session, the acknowledgment of every telemetry message
\* handled with at least 3 records in the buffer carries the values of the
\* session's most recent successful control_command_update, (5,5) if none;
\* a failed generation, a ping or a "collecting data" reply never changes
\* the stored last command.
C4_AckKeepsLastUpdate == []C4_Inv /\ [][C4_Step]_vars

\* The acknowledgment carried an earlier update's values, the generation
\* then failed and the stored command is still that update's.
C4_Witness ==
    \E s \in AllSessions :
        /\ pc[s] = "recv" /\ gen_calls[s] = 1
        /\ sent[s] = <<Ack(LapOf(s), own_last[s]), ErrorMsg(LapOf(s))>>
        /\ own_last[s] # NeutralCommand
        /\ last_control_command = own_last[s]

C5_Inv ==
    \A s \in AllSessions :
        /\ pc[s] = "generating"
              => (Len(sent[s]) = 1 /\ sent[s][1].type = "control_command")
        /\ (pc[s] = "recv" /\ gen_calls[s] = 1)
              => /\ Len(sent[s]) = 2
                 /\ sent[s][1].type = "control_command"
                 /\ sent[s][2].type \in {"control_command_update", "error"}
                 /\ sent[s][1].lap = sent[s][2].lap
C5_Step ==
    \A s \in AllSessions :
        pc[s] = "generating"
            => /\ ~Received(s)
               /\ sent'[s] # sent[s] => pc'[s] # "generating"

\* C5: for each telemetry message that triggers generation the acknowledgment
\* precedes the second message of the same lap, and while the generation is
\* pending the session takes no later inbound message and sends nothing.
C5_AckThenUpdate == []C5_Inv /\ [][C5_Step]_vars

C5_Witness ==
    \E s \in AllSessions :
        /\ pc[s] = "recv" /\ gen_calls[s] = 1 /\ Len(sent[s]) = 2
        /\ sent[s][2].type = "control_command_update"

\* The handling of the latest inbound message of session s has failed.
HandlingFailed(s) ==
    \/ cur[s].kind = "not_object"
    \/ cur[s].form \in {"bad_enriched", "bad_context"}
    \/ /\ cur[s].form = "ok" /\ gen_calls[s] = 1 /\ pc[s] # "generating"
       /\ ~HasType(sent[s], "control_command_update")

\* C6: any failure while handling one inbound message (an enriched payload
\* that does not parse, a generation failure, an inbound message that is not
\* a JSON object) results in an outbound error message and leaves the session
\* in its receive loop.
C6_FailureKeepsLoop ==
    \A s \in AllSessions :
        HandlingFailed(s) => (pc[s] = "recv" /\ HasType(sent[s], "error"))

\* C7: every inbound telemetry message, handled and not waiting for its
\* generation, was answered by at least one outbound message, also when it
\* lacks enriched_telemetry or race_context.
C7_TelemetryAnswered ==
    \A s \in AllSessions :
        (cur[s].kind = "telemetry" /\ pc[s] = "recv") => sent[s] # <<>>

C8_Inv ==
    \A s \in AllSessions :
        Connected(s) => first_sent[s] = "connection_established"
C8_Step ==
    \A s \in AllSessions :
        (~Connected(s) /\ Connected(s)')
            => /\ telemetry_buffer' = <<>>
               /\ last_control_command' = NeutralCommand
               /\ cur'[s] = NoInbound
               /\ sent'[s] = <<Welcome>>

\* C8: on every connect the telemetry buffer is emptied and the last command
\* set to (5,5) before any inbound message of the session is handled, and
\* connection_established is the first outbound message of the session.
C8_ConnectResets == []C8_Inv /\ [][C8_Step]_vars

\* A session has just connected while another one, which had stored records
\* and received an update, is still there.
C8_Witness ==
    \E s, r \in AllSessions :
        /\ s # r /\ Connected(r) /\ own_adds[r] >= 3
        /\ own_last[r] # NeutralCommand
        /\ pc[s] = "recv" /\ cur[s] = NoInbound /\ sent[s] = <<Welcome>>
        /\ telemetry_buffer = <<>> /\ last_control_command = NeutralCommand

C9_Inv ==
    \A s \in AllSessions :
        InList(active_connections, s) <=> Connected(s)
C9_Step ==
    \A s \in AllSessions :
        (Connected(s) /\ ~Connected(s)')
            => /\ pc'[s] = "closed"
               /\ telemetry_buffer' = <<>>
               /\ ~InList(active_connections', s)

\* C9: however a session ends (a disconnect message, a transport disconnect,
\* an unexpected error in the loop), right afterwards the telemetry buffer
\* is empty and the connection is not in active_connections.
C9_EndCleansUp == []C9_Inv /\ [][C9_Step]_vars

\* A session ended on an unexpected error while another one, which had
\* stored a record, is still connected.
C9_Witness ==
    \E s, r \in AllSessions :
        /\ pc[s] = "closed" /\ cur[s].kind = "not_object"
        /\ Connected(r) /\ own_adds[r] > 0
        /\ telemetry_buffer = <<>> /\ active_connections = <<r>>

C10_Inv ==
    \A s \in AllSessions :
        /\ cur[s].kind = "ping" => sent[s] = <<Pong>>
        /\ cur[s].kind = "disconnect" => (pc[s] = "closed" /\ sent[s] = <<>>)
C10_Step ==
    \A s \in AllSessions :
        PingHandled(s)
            => /\ telemetry_buffer' = telemetry_buffer
               /\ last_control_command' = last_control_command
               /\ pc'[s] = pc[s]

\* C10: each inbound ping is answered by exactly one pong, the next outbound
\* message of the session, and leaves the buffer and the last command
\* unchanged; an inbound disconnect message ends the loop with no further
\* outbound message.
C10_PingPong == []C10_Inv /\ [][C10_Step]_vars

C10_Witness ==
    \E s \in AllSessions :
        /\ cur[s].kind = "ping" /\ sent[s] = <<Pong>> /\ pc[s] = "recv"
        /\ telemetry_buffer # <<>> /\ last_control_command # NeutralCommand

\* The last n items of a sequence, in their order.
LastItems(s, n) == SubSeq(s, Len(s) - Min(n, Len(s)) + 1, Len(s))

\* C11: after any sequence of add and clear on a buffer of capacity C, the
\* buffer holds exactly the last min(k, C) records added since the most
\* recent clear, in arrival order; its size never exceeds C, and records with
\* the same lap number are all kept.
C11_BufferHoldsLastAdded ==
    /\ buffer = LastItems(added, max_size)
    /\ size(buffer) <= max_size
    /\ size(buffer) = Min(Len(added), max_size)

\* More records than the capacity were added, and two of those kept have the
\* same lap number.
C11_Witness ==
    /\ Len(added) > max_size
    /\ \E i, j \in 1..Len(buffer) : i < j /\ buffer[i].lap = buffer[j].lap

\* C12 as stated: for every buffer content and every n >= 0, get_latest(n)
\* returns min(n, size) records, the most recently added ones, newest first.
C12_GetLatestAsStated ==
    limit # NoValue
        => /\ Len(latest) = Min(limit, size(buffer))
           /\ latest = Reverse(LastItems(buffer, limit))

\* validate_strategy has accepted the strategy it was given.
Accepted == strategy # NoStrategy /\ verdict[1]

PitLapsInRange ==
    \A i \in 1..Len(strategy.pit_laps) :
        /\ strategy.pit_laps[i] > race_info.current_lap
        /\ strategy.pit_laps[i] < race_info.total_laps
PitLapsStrictlyAscending ==
    \A i \in 2..Len(strategy.pit_laps) :
        strategy.pit_laps[i] > strategy.pit_laps[i - 1]
CountsMatch ==
    /\ Len(strategy.pit_laps) = strategy.stop_count
    /\ Len(strategy.tire_sequence) = strategy.stop_count + 1
TwoCompounds ==
    \E i, j \in 1..Len(strategy.tire_sequence) :
        strategy.tire_sequence[i] # strategy.tire_sequence[j]

\* C13: every strategy that validate_strategy accepts has all its pit laps
\* strictly inside (current_lap, total_laps), as many pit laps as stop_count,
\* stop_count + 1 tires and at least 2 distinct compounds; so stop_count = 1
\* with two pit laps, two tires of one compound and a pit lap <= current_lap
\* are rejected.
C13_AcceptedObeysRules ==
    /\ Accepted => (PitLapsInRange /\ CountsMatch /\ TwoCompounds)
    /\ (strategy.stop_count = 1 /\ Len(strategy.pit_laps) = 2) => ~verdict[1]
    /\ (Len(strategy.tire_sequence) = 2
        /\ strategy.tire_sequence[1] = strategy.tire_sequence[2])
           => ~verdict[1]
    /\ (\E i \in 1..Len(strategy.pit_laps) :
            strategy.pit_laps[i] <= race_info.current_lap) => ~verdict[1]

\* A one-stop strategy was accepted after the first lap.
C13_Witness == Accepted /\ strategy.stop_count = 1 /\ race_info.current_lap > 0

\* C14: every strategy that validate_strategy accepts has strictly ascending
\* pit laps: no pit lap is equal to or smaller than the one before it.
C14_AcceptedStrictlyAscending == Accepted => PitLapsStrictlyAscending

\* C15: every strategy that satisfies all five rules is accepted by
\* validate_strategy, with an empty reason.
C15_RulesImplyAccepted ==
    (strategy # NoStrategy /\ PitLapsInRange /\ PitLapsStrictlyAscending
     /\ CountsMatch /\ TwoCompounds)
        => verdict = <<TRUE, "">>

\* A two-stop strategy that satisfies the five rules was validated.
C15_Witness ==
    /\ strategy # NoStrategy /\ PitLapsInRange /\ PitLapsStrictlyAscending
    /\ CountsMatch /\ TwoCompounds
    /\ strategy.stop_count = 2 /\ verdict = <<TRUE, "">>

\* validate_strategy accepts candidate s.
Accepts(s) == validate_strategy(s, race_info)[1]

\* C16: validate_strategies returns exactly the candidates validate_strategy
\* accepts, in their original relative order, and the empty list when none
\* is valid.
C16_BatchKeepsValid ==
    /\ valid_strategies = SelectSeq(strategies, Accepts)
    /\ (\A i \in 1..Len(strategies) : ~Accepts(strategies[i]))
           => valid_strategies = <<>>

\* Two different valid candidates were returned in their order.
C16_Witness ==
    /\ Len(strategies) = 2 /\ strategies[1] # strategies[2]
    /\ Accepts(strategies[1]) /\ Accepts(strategies[2])
    /\ valid_strategies = strategies

\* Attempt i of the running or ended call failed.
Failed(i) == attempts[i].response.kind # "parsed"
ParseFailed(i) == attempts[i].response.kind = "json"
TransportFailed(i) == attempts[i].response.kind = "api"

C17_Inv ==
    /\ Len(attempts) <= max_retries
    /\ \A i \in 1..Len(attempts) :
           ~Failed(i) => /\ i = Len(attempts)
                         /\ call_result.status = "returned"
                         /\ call_result.value = attempts[i].response.value
C17_Terminates ==
    (call_result.status = "running")
        ~> (call_result.status \in {"returned", "raised"})

\* C17: one call of generate_json issues at most max_retries requests, stops
\* at the first attempt whose response parses, and always ends by returning
\* a result or raising.
C17_BoundedAttempts == []C17_Inv /\ C17_Terminates

\* A call returned at its last attempt, after every earlier one failed.
C17_Witness ==
    /\ max_retries >= 3 /\ Len(attempts) = max_retries
    /\ call_result.status = "returned"

\* C18: within one call, every attempt made after at least one parse failure
\* sends the original prompt followed by the structured-only paragraph
\* exactly once, however many parse failures occurred; attempts preceded only
\* by transport or timeout failures send the original prompt unchanged.
C18_EmphasisOnce ==
    \A i \in 1..Len(attempts) :
        attempts[i].prompt =
            IF \E j \in 1..(i - 1) : ParseFailed(j)
            THEN Prompt(call.prompt.text, call.prompt.length, 1)
            ELSE call.prompt

\* A third attempt was made after two parse failures.
C18_Witness ==
    /\ Len(attempts) >= 3 /\ ParseFailed(1) /\ ParseFailed(2)
    /\ attempts[3].prompt.emphasis = 1

\* C19: after a transport or timeout failure on attempt k < max_retries the
\* wait before attempt k + 1 grows exponentially with k (the waits after
\* attempts k, k + 1, k + 2 are in geometric progression), and for the same
\* k the wait after a timeout-like failure is larger than after any other
\* transport failure.
C19_ExponentialBackoff ==
    /\ \A i \in 1..(Len(attempts) - 2) :
           (/\ TransportFailed(i) /\ TransportFailed(i + 1)
            /\ TransportFailed(i + 2) /\ attempts[i + 2].wait > 0
            /\ TimeoutLike(attempts[i].response.value)
                   = TimeoutLike(attempts[i + 1].response.value)
            /\ TimeoutLike(attempts[i].response.value)
                   = TimeoutLike(attempts[i + 2].response.value))
               => attempts[i + 1].wait * attempts[i + 1].wait
                      = attempts[i].wait * attempts[i + 2].wait
    /\ \A i \in 1..Len(attempts) :
           (/\ TransportFailed(i) /\ attempts[i].wait > 0
            /\ TimeoutLike(attempts[i].response.value))
               => attempts[i].wait > wait_time(Raised("connection"), i)

C20_Inv ==
    /\ (/\ max_retries >= 1 /\ Len(attempts) = max_retries
        /\ \A i \in 1..Len(attempts) : Failed(i))
           => /\ call_result.status = "raised"
              /\ call_result.value = NoResult
    /\ (call_result.status = "raised" /\ max_retries >= 1)
           => /\ Len(attempts) = max_retries
              /\ call_result.last = last_error
              /\ call_result.last.reason
                     = attempts[Len(attempts)].response.value
              /\ call_result.last.prefix \in {"JSON parsing error", "API error"}
C20_Step ==
    (call_result.status = "running" /\ call_result'.status = "raised")
        => demo_cache' = demo_cache

\* C20: when every attempt of a call fails, the call raises an error whose
\* message holds the failure reason of the last attempt; it returns no value
\* and caches none.
C20_RaisesLastError == []C20_Inv /\ [][C20_Step]_vars

\* In demo mode a call raised after a parse failure and two transport
\* failures, the last one a timeout.
C20_Witness ==
    /\ demo_mode /\ max_retries = 3 /\ call_result.status = "raised"
    /\ ParseFailed(1) /\ attempts[2].response.value = "connection"
    /\ call_result.last = Error("API error", "timeout")

\* With demo mode off the cache stays empty.
C21_Inv ==
    ~demo_mode => \A k \in CacheKeys : demo_cache[k] = NoResult
\* In demo mode, a call that follows a returned call with the same prompt
\* and temperature returns the same result and makes no attempt.
C21_Step ==
    (demo_mode /\ call_result.status = "returned" /\ call' = call)
        => /\ call_result'.status = "returned"
           /\ call_result'.value = call_result.value
           /\ attempts' = <<>>

\* C21: in demo mode, once generate_json has returned a result for a prompt
\* and temperature, every later call with the same prompt and temperature
\* returns that result without a request to the service, also when the first
\* call succeeded only after a parse-failure retry; with demo mode off the
\* cache is never read or written.
C21_CacheAsStated == []C21_Inv /\ [][C21_Step]_vars

\* C22: for every response text that parses as structured output,
\* _parse_json returns the same result for the text and for the text wrapped
\* in a leading and trailing triple-backtick fence, with or without a
\* language tag after the opening fence.
C22_FenceIsTransparent ==
    fenced_text # <<>> => (parsed_bare.ok /\ parsed_fenced = parsed_bare)

\* What the statements below say of a synthesis: the rule table, the pit
\* window, the classification of a record.
Synthesized == synth_lap # NoValue
SynthesizedTwice == previous_synthesis.lap # NoValue
TableBrakeBias(r) ==
    IF r.tire_degradation_rate > 70 THEN 7
    ELSE IF r.tire_degradation_rate > 40 THEN 6
    ELSE IF r.tire_degradation_rate < 20 THEN 4
    ELSE 5
TableDifferentialSlip(r) ==
    IF r.tire_cliff_risk > 70 THEN 7
    ELSE IF r.pace_trend = "declining" THEN 6
    ELSE IF r.pace_trend = "improving" THEN 4
    ELSE 5
Within(lap, window) ==
    window # <<>> /\ window[1] <= lap /\ lap <= window[2]
PlusOne(v) == IF v + 1 > 10 THEN 10 ELSE v + 1
DegradationBand(r) ==
    IF r.tire_degradation_rate > 70 THEN "high"
    ELSE IF r.tire_degradation_rate > 40 THEN "moderate"
    ELSE IF r.tire_degradation_rate < 20 THEN "fresh"
    ELSE "normal"
Classification(r) ==
    <<DegradationBand(r), r.tire_cliff_risk > 70, r.pace_trend>>
\* The pit window of a strategy: from its first to its last pit lap.
StrategyPitWindow(s) ==
    IF s.pit_laps = <<>> THEN <<>>
    ELSE <<s.pit_laps[1], s.pit_laps[Len(s.pit_laps)]>>

\* C23: with the lap outside the pit window, the command is that of the rule
\* table (brake_bias 7 above 0.7 degradation, else 6 above 0.4, else 4 below
\* 0.2, else 5; differential_slip 7 above 0.7 cliff risk, else 6 for a
\* declining pace, else 4 for an improving pace, else 5), whatever the
\* strategy and the command before.
C23_RuleTable ==
    (Synthesized /\ ~Within(synth_lap, synth_record.optimal_pit_window))
        => control_command = Command(TableBrakeBias(synth_record),
                                     TableDifferentialSlip(synth_record))
C23_Witness ==
    /\ Synthesized
    /\ synth_record.optimal_pit_window # <<>>
    /\ ~Within(synth_lap, synth_record.optimal_pit_window)
    /\ synth_record.tire_cliff_risk > 70
    /\ synth_record.pace_trend = "improving"
    /\ synth_record.tire_degradation_rate = 70
    /\ synth_strategy # NoStrategy
    /\ SynthesizedTwice
    /\ previous_synthesis.command # control_command
    /\ control_command = Command(6, 7)

SameClassification ==
    /\ SynthesizedTwice
    /\ Classification(previous_synthesis.record) = Classification(synth_record)
SamePitWindowSide ==
    Within(previous_synthesis.lap, previous_synthesis.record.optimal_pit_window)
        <=> Within(synth_lap, synth_record.optimal_pit_window)
C25_Continuity ==
    (SameClassification /\ SamePitWindowSide)
        => control_command = previous_synthesis.command
C25_Witness ==
    /\ SameClassification
    /\ Within(synth_lap, synth_record.optimal_pit_window)
    /\ Within(previous_synthesis.lap,
              previous_synthesis.record.optimal_pit_window)
    /\ synth_lap # previous_synthesis.lap
    /\ synth_record # previous_synthesis.record
    /\ control_command = previous_synthesis.command
\* C25 as stated: the same classification alone.
C25_SameClassificationSameCommand ==
    SameClassification => control_command = previous_synthesis.command

\* C26: every control_command and control_command_update sent in a session
\* carries a brake_bias and a differential_slip that are integers from 0 to
\* 10.
IsCommand(m) == m.type \in {"control_command", "control_command_update"}
C26_CommandsInRange ==
    \A s \in AllSessions : \A i \in 1..Len(sent[s]) :
        IsCommand(sent[s][i])
            => /\ sent[s][i].brake_bias \in 0..10
               /\ sent[s][i].differential_slip \in 0..10
C26_Witness ==
    \E s \in AllSessions : \E i, k \in 1..Len(sent[s]) :
        /\ sent[s][i] = Collecting(sent[s][i].lap)
        /\ sent[s][k].type = "control_command_update"
        /\ sent[s][k].brake_bias = 8
        /\ sent[s][k].differential_slip = 8

\* C27: POST /api/ingest/enriched appends the record to the buffer before
\* generation is attempted; generation is attempted exactly when the buffer
\* then holds at least 3 records; when generation fails the response is
\* received_but_brainstorm_failed and never an HTTP 500, and the handler
\* leaves the buffer as it is: the record is removed from it only by a
\* session that connects or ends while the generation is going on.
HoldsLap(buf, lap) == \E i \in 1..Len(buf) : buf[i].lap = lap
Ingested == wh_pc = "idle" /\ (wh_pc' = "generating" \/ wh_resp' # wh_resp)
BrainstormOver == wh_pc = "generating" /\ wh_pc' = "idle"
BrainstormFailed ==
    BrainstormOver /\ wh_resp'.status # "received_and_processed"
C27_AppendedFirst ==
    Ingested
        => /\ Len(telemetry_buffer') = Len(telemetry_buffer) + 1
           /\ telemetry_buffer'[Len(telemetry_buffer')].lap = wh_lap'
           /\ wh_pc' = "generating" <=> Len(telemetry_buffer') >= 3
C27_FailureReported ==
    BrainstormFailed
        => /\ wh_resp'.status = "received_but_brainstorm_failed"
           /\ wh_resp'.buffer_size = Len(telemetry_buffer')
           /\ telemetry_buffer' = telemetry_buffer
C27_RemovedBySessionOnly ==
    (wh_pc = "generating" /\ HoldsLap(telemetry_buffer, wh_lap)
                          /\ ~HoldsLap(telemetry_buffer', wh_lap))
        => /\ telemetry_buffer' = <<>>
           /\ \E s \in AllSessions :
                  /\ pc[s] # pc'[s]
                  /\ pc[s] \in {"idle", "closed"} \/ pc'[s] = "closed"
Brainstormed == brainstorm_status # NoValue
NoRecordAnywhere ==
    /\ Brainstormed
    /\ brainstorm_request = <<>>
    /\ buffer_data = <<>>
    /\ fetched.records = <<>>
C28_SourceOrder ==
    Brainstormed =>
        enriched_data =
            IF brainstorm_request # <<>> THEN brainstorm_request
            ELSE IF buffer_data # <<>> THEN buffer_data
            ELSE fetched.records
C28_MissingDataIsClientError ==
    /\ C28_SourceOrder
    /\ NoRecordAnywhere => brainstorm_status = 400

\* C29: with a callback URL configured, a failure of the forward does not
\* change what POST /ingest/telemetry does: the enriched record is stored in
\* the recent store and the response is the one given when the forward
\* succeeds.
ResponseWhenDelivered(lap) ==
    [op |-> "ingest", argument |-> lap, forward |-> "delivered",
     status |-> 200, body |-> <<enrich_lap_data(lap)>>]
ForwardFailed == api_call.op = "ingest" /\ api_call.forward = "failed"
ForwardDelivered == api_call.op = "ingest" /\ api_call.forward = "delivered"
StoredLast(lap) ==
    /\ recent # <<>>
    /\ recent[Len(recent)] = enrich_lap_data(lap).enriched_telemetry
C29_ForwardFailureIgnored ==
    /\ ForwardDelivered
           => /\ api_call = ResponseWhenDelivered(api_call.argument)
              /\ StoredLast(api_call.argument)
    /\ ForwardFailed
           => /\ callback_url
              /\ [api_call EXCEPT !.forward = "delivered"]
                     = ResponseWhenDelivered(api_call.argument)
              /\ StoredLast(api_call.argument)
C29_Witness ==
    /\ ForwardFailed
    /\ api_call.status = 200
    /\ Len(recent) = max_recent
    /\ recent[1] # recent[Len(recent)]

\* C30: GET /enriched with any integer limit returns
\* min(max(1, min(200, limit)), stored) records, the most recently stored
\* ones, newest first; and the recent store never holds more than 200
\* records.
Listed == api_call.op = "list"
CountAsStated(n) ==
    LET upper == IF n < 200 THEN n ELSE 200
        bounded == IF upper > 1 THEN upper ELSE 1
    IN  IF bounded < Len(recent) THEN bounded ELSE Len(recent)
C30_StoreBounded == Len(recent) <= 200 /\ Len(recent) <= max_recent
C30_ListedCount ==
    Listed => Len(api_call.body) = CountAsStated(api_call.argument)
C30_ListNewestFirst ==
    /\ C30_StoreBounded
    /\ C30_ListedCount
    /\ Listed => api_call.body =
                     Reverse(LastItems(recent, CountAsStated(api_call.argument)))

\* C31: for every sequence of enrich or enrich_with_context calls whose
\* samples have throttle, brake and fuel_level in [0,1] and speed >= 0, every
\* emitted record has aero_efficiency, tire_degradation_index, ers_charge,
\* fuel_optimization_score and driver_consistency in [0,1] and weather_impact
\* one of low, medium, high.
Emitted == emitted # NoMetrics
InUnit(score) == 0 <= score /\ score <= 1000
C31_RecordsInRange ==
    Emitted =>
        /\ InUnit(emitted.aero_efficiency)
        /\ InUnit(emitted.tire_degradation_index)
        /\ InUnit(emitted.ers_charge)
        /\ InUnit(emitted.fuel_optimization_score)
        /\ InUnit(emitted.driver_consistency)
        /\ emitted.weather_impact \in {"low", "medium", "high"}
C31_Witness ==
    /\ Emitted
    /\ race_context_out # NoRaceContext
    /\ emitted.tire_degradation_index = 1000
    /\ emitted.ers_charge = 1000
    /\ emitted_before.tire_degradation_index < 1000

\* C32: over any sequence of enrich calls on one Enricher with a fixed
\* compound and throttle in [0,1], the tire_degradation_index of each record
\* is greater than or equal to that of the record before it.
C32_WearNeverDecreases ==
    emitted_before # NoMetrics =>
        emitted.tire_degradation_index >= emitted_before.tire_degradation_index
C32_Witness ==
    /\ emitted_before # NoMetrics
    /\ race_context_out = NoRaceContext
    /\ enricher_state.lap_speeds # <<>>
    /\ emitted.lap = emitted_before.lap
    /\ emitted.tire_degradation_index > emitted_before.tire_degradation_index

\* C33: after any number of laps processed by one Enricher, its per-lap
\* history (lap_speeds and lap_throttle_avg) holds at most 10 entries, the
\* oldest lap being evicted first on overflow.
NewestLaps(n) == {l \in 1..enrich_calls : l > enrich_calls - n}
C33_HistoryCapped ==
    /\ Cardinality(DOMAIN enricher_state.lap_speeds) <= 10
    /\ Cardinality(DOMAIN enricher_state.lap_throttle_avg) <= 10
    /\ DOMAIN enricher_state.lap_speeds = NewestLaps(10)
    /\ DOMAIN enricher_state.lap_throttle_avg = NewestLaps(10)

\* C34: for every payload, normalize_telemetry returns lap, speed, throttle,
\* brake, tire_compound and fuel_level under their canonical names, taking
\* each from the first alias present with a non-null value, with throttle,
\* brake and fuel_level inside [0,1] and with the defaults (lap 0, speed 0.0,
\* throttle 0.0, brake 0.0, compound medium, fuel 0.5) when the value is
\* missing or not convertible; it never raises.
NormalizeCalled == normalized # NotNormalized
FirstValue(key) ==
    LET names == Aliases(key)
        present == {i \in DOMAIN names :
                      raw_payload[names[i]].kind \notin {"absent", "null"}}
    IN IF present = {} THEN Missing
       ELSE raw_payload[names[CHOOSE i \in present :
                                  \A j \in present : i <= j]]
OrDefault(conversion, default) ==
    IF conversion.error = "none" THEN conversion.value ELSE default
InUnitInterval(x) == x.kind = "number" /\ 0 <= x.n /\ x.n <= 1000
StatedFraction(key, default) ==
    LET x == FirstValue(key)
        v == OrDefault(to_float(x), default)
    IN IF v = Infinity \/ v.n > 1000 THEN Number(1000)
       ELSE IF v.n < 0 THEN Number(0) ELSE v
C34_AsStatedUnlessRaised ==
    (NormalizeCalled /\ normalized.raised = "none") =>
        /\ normalized.lap = OrDefault(to_int(FirstValue("lap")), Number(0))
        /\ normalized.speed = OrDefault(to_float(FirstValue("speed")), Number(0))
        /\ normalized.throttle = StatedFraction("throttle", Number(0))
        /\ normalized.brake = StatedFraction("brake", Number(0))
        /\ normalized.fuel_level = StatedFraction("fuel_level", Number(500))
        /\ InUnitInterval(normalized.throttle)
        /\ InUnitInterval(normalized.brake)
        /\ InUnitInterval(normalized.fuel_level)
        /\ normalized.tire_compound =
               IF FirstValue("tire_compound").kind = "text"
               THEN Text(lower(FirstValue("tire_compound").text),
                         FirstValue("tire_compound").n)
               ELSE Text("medium", NoParse)
C34_OnlyOverflowEscapes ==
    NormalizeCalled => normalized.raised \in {"none", "OverflowError"}
C34_Normalize ==
    /\ C34_AsStatedUnlessRaised
    /\ NormalizeCalled => normalized.raised = "none"

\* C35: for every lap row with tire age >= 0, the enriched payload built by
\* lap_to_enriched_payload has tire_degradation_rate and tire_cliff_risk in
\* [0,1] and optimal_pit_window[0] <= optimal_pit_window[1], with both window
\* laps greater than the current lap.
Simulated == simulated_payload # NoSimulated
C35_PayloadInRange ==
    Simulated =>
        LET built == simulated_payload.enriched_telemetry
        IN /\ InUnit(built.tire_degradation_rate)
           /\ InUnit(built.tire_cliff_risk)
           /\ built.optimal_pit_window[1] <= built.optimal_pit_window[2]
           /\ built.optimal_pit_window[1] > simulated_payload.lap_number
           /\ built.optimal_pit_window[2] > simulated_payload.lap_number
C35_Witness ==
    /\ Simulated
    /\ simulated_payload.race_context.tire_age_laps > 50
    /\ simulated_payload.enriched_telemetry.tire_degradation_rate = 1000
    /\ simulated_payload.enriched_telemetry.tire_cliff_risk = 1000
    /\ simulated_payload.enriched_telemetry.optimal_pit_window[1]
           = simulated_payload.lap_number + 1

\* The messages of a list that carry one of the given types.
CountOf(msgs, types) ==
    Cardinality({i \in 1..Len(msgs) : msgs[i].type \in types})
SecondMessages == {"control_command_update", "error"}
C36_Inv ==
    \A s \in AllSessions :
        (cur[s].form = "ok" /\ gen_calls[s] = 1 /\ pc[s] = "recv")
            => /\ sent[s][1] = Ack(LapOf(s), sent[s][1])
               /\ CountOf(sent[s], SecondMessages) = 1
               /\ CountOf(sent[s], {"control_command"}) = 1
               /\ Len(sent[s]) = 2
               /\ \A i \in 1..Len(sent[s]) : sent[s][i].lap = LapOf(s)
C36_Step ==
    \A s \in AllSessions :
        (pc[s] = "generating" /\ Connected(s)' /\ sent'[s] # sent[s])
            => LET second == sent'[s][Len(sent'[s])]
               IN /\ sent'[s] = Append(sent[s], second)
                  /\ second.type \in SecondMessages
                  /\ second.type = "error"
                        => last_control_command' = last_control_command
                  /\ second.type = "control_command_update"
                        => last_control_command' =
                               Command(second.brake_bias,
                                       second.differential_slip)

\* C36: within one session, each control_command acknowledgment sent for a
\* telemetry message that triggers generation is followed by exactly one
\* further outbound message for that lap, either a control_command_update
\* (generation and synthesis succeeded, the command is stored) or an error
\* (they failed, the stored command is kept), never both and never neither.
C36_OneSecondMessage == []C36_Inv /\ [][C36_Step]_vars

C36_Witness ==
    \E s \in AllSessions :
        /\ pc[s] = "recv" /\ gen_calls[s] = 1
        /\ sent[s] = <<Ack(LapOf(s), NeutralCommand), ErrorMsg(LapOf(s))>>
        /\ own_last[s] = NeutralCommand
        /\ wf_count[s] > MinRecords

C37_Inv ==
    \A s \in AllSessions :
        (pc[s] = "generating" \/ (gen_calls[s] = 1 /\ Connected(s)))
            => size(telemetry_buffer) >= MinRecords
C37_Step ==
    \A s \in AllSessions :
        /\ (Connected(s) /\ Connected(s)')
              => size(telemetry_buffer') >= size(telemetry_buffer)
        /\ (Received(s) /\ size(telemetry_buffer) >= MinRecords
            /\ cur'[s].kind = "telemetry" /\ cur'[s].form = "ok")
              => /\ pc'[s] = "generating"
                 /\ sent'[s] = <<Ack(cur'[s].enriched.lap, last_control_command)>>
                 /\ gen_calls'[s] = 1

\* C37: in a single session with no other writer to the buffer, once a
\* telemetry message has triggered generation every later well-formed
\* telemetry message of that session also triggers generation, and the
\* session never returns to the neutral "collecting data" reply before it
\* disconnects: a generation is triggered only with 3 records or more in the
\* buffer, the buffer of a connected session never shrinks, and with 3
\* records or more a well-formed telemetry message is acknowledged and its
\* generation started.
C37_GenerationStays == []C37_Inv /\ [][C37_Step]_vars

C37_Witness ==
    /\ pc[1] = "generating"
    /\ size(telemetry_buffer) > MinRecords
    /\ sent[1] = <<Ack(LapOf(1), own_last[1])>>
    /\ own_last[1] # NeutralCommand

\* the command the rule table gives for a record
TableCommand(r) ==
    IF Within(r.lap, r.optimal_pit_window)
    THEN Command(PlusOne(TableBrakeBias(r)), PlusOne(TableDifferentialSlip(r)))
    ELSE Command(TableBrakeBias(r), TableDifferentialSlip(r))
C38_Step ==
    \A s \in AllSessions :
        (pc[s] = "generating" /\ GenerateDone(s, "none_valid"))
            => LET r == cur[s].enriched
               IN /\ sent'[s] = <<sent[s][1], Update(r.lap, TableCommand(r), 0)>>
                  /\ last_control_command' = TableCommand(r)
                  /\ ~HasType(sent'[s], "error")
                  /\ pc'[s] = "recv"
C38_Inv ==
    \A s \in AllSessions :
        \A i \in 1..Len(sent[s]) :
            (sent[s][i].type = "control_command_update"
             /\ sent[s][i].total_strategies = 0)
                => /\ ~HasType(sent[s], "error")
                   /\ Command(sent[s][i].brake_bias,
                              sent[s][i].differential_slip)
                          = TableCommand(cur[s].enriched)

GenerateCalled == generated # NotGenerated
Kept(s_data) ==
    /\ parses(s_data)
    /\ validate_strategy(s_data.data, generate_call.race_info)[1]
RECURSIVE DataOf(_)
DataOf(list) ==
    IF list = <<>> THEN <<>> ELSE <<Head(list).data>> \o DataOf(Tail(list))
Remaining == DataOf(SelectSeq(generate_call.result.candidates, Kept))
AllObjects ==
    \A i \in 1..Len(generate_call.result.candidates) :
        generate_call.result.candidates[i].shape = "object"
C39_DroppedWhenObjects ==
    (GenerateCalled /\ generate_call.result.kind = "strategies" /\ AllObjects)
        => generated = Returned(Remaining)
C39_FailsAsStatedOtherwise ==
    (GenerateCalled /\ generate_call.result.kind \in {"raises", "no_strategies"})
        => generated.raised # "none"
C39_Generate ==
    GenerateCalled =>
        /\ generated.raised # "none"
              <=> generate_call.result.kind \in {"raises", "no_strategies"}
        /\ generate_call.result.kind = "strategies"
              => generated = Returned(Remaining)

====
